---------------------------- MODULE Spec2Model ----------------------------
(***************************************************************************)
(* Model of the evmfactory Solana program (Anchor): marketplace config,    *)
(* listings, orders, contests and the shared fee engine.                   *)
(*                                                                         *)
(* An instruction is one atomic step.  Anchor runs it in this order:       *)
(*   1. every non-init account of the Accounts struct is deserialized,     *)
(*   2. the init accounts are created (payer funds the storage deposit),   *)
(*   3. the constraints of the non-init accounts are checked,              *)
(*   4. the handler body runs,                                             *)
(*   5. on success the close = ... accounts are closed.                    *)
(* The first failing check decides the error; a failing instruction        *)
(* changes nothing but is recorded in `last`.                              *)
(***************************************************************************)
EXTENDS Integers, Sequences, FiniteSets, TLC

(***************************************************************************)
(* Fixed-width integers.  A u64 is its 8 little-endian bytes, a u128 its   *)
(* 16, so that the widths of utils.rs are the real ones.                   *)
(***************************************************************************)
RECURSIVE to_le_bytes(_, _)
to_le_bytes(n, len) ==
    IF len = 0 THEN <<>>
    ELSE <<n % 256>> \o to_le_bytes(n \div 256, len - 1)

RECURSIVE from_le_bytes(_)
from_le_bytes(b) ==
    IF b = <<>> THEN 0 ELSE Head(b) + 256 * from_le_bytes(Tail(b))

as_u128(amount) == amount \o [i \in 1..8 |-> 0]

as_u64(wide) == SubSeq(wide, 1, 8)

\* digits of a * k (k a small scalar) in Len(a) bytes, and the carry out
RECURSIVE MulCarry(_, _, _)
MulCarry(a, k, carry) ==
    IF a = <<>> THEN [digits |-> <<>>, carry |-> carry]
    ELSE LET t    == Head(a) * k + carry
             rest == MulCarry(Tail(a), k, t \div 256)
         IN  [digits |-> <<t % 256>> \o rest.digits, carry |-> rest.carry]

\* u128::checked_mul with a right operand that came from a u16
checked_mul(a, k) ==
    LET r == MulCarry(a, k, 0)
    IN  IF r.carry = 0 THEN [some |-> TRUE, val |-> r.digits]
        ELSE [some |-> FALSE, val |-> <<>>]

\* remainder of the bytes i..Len(a) (most significant part) of a modulo d
RECURSIVE rem_from(_, _, _)
rem_from(a, d, i) ==
    IF i > Len(a) THEN 0 ELSE (rem_from(a, d, i + 1) * 256 + a[i]) % d

\* u128 `/` by a small divisor: schoolbook long division, byte by byte
wide_div(a, d) ==
    [i \in 1..Len(a) |-> (rem_from(a, d, i + 1) * 256 + a[i]) \div d]

Ok(v) == [ok |-> TRUE, val |-> v, err |-> "ok"]
Err(e) == [ok |-> FALSE, val |-> <<>>, err |-> e]

compute_fee_u64_intermediate(amount, fee_bps) ==
    IF fee_bps = 0 THEN Ok(to_le_bytes(0, 8))
    ELSE LET numerator == checked_mul(amount, fee_bps)
         IN  IF ~numerator.some THEN Err("MathOverflow")
             ELSE Ok(as_u64(wide_div(numerator.val, 10000)))

compute_fee(amount, fee_bps) ==
    IF fee_bps = 0 THEN Ok(to_le_bytes(0, 8))
    ELSE LET numerator == checked_mul(as_u128(amount), fee_bps)
         IN  IF ~numerator.some THEN Err("MathOverflow")
             ELSE Ok(as_u64(wide_div(numerator.val, 10000)))

(***************************************************************************)
(* Addresses.  Every Pubkey is a 4-tuple of strings: a wallet is           *)
(* <<"user", name, "-", "-">>, a program-derived address is its domain tag *)
(* followed by its seeds (state.rs:3-13).                                  *)
(***************************************************************************)
NONE == "-"

\* Pubkey::default(), the signer of no instruction
NOBODY == <<NONE, NONE, NONE, NONE>>

UserKey(name) == <<"user", name, NONE, NONE>>

AUTHORITY == UserKey("auth")
U1 == UserKey("u1")
U2 == UserKey("u2")

Users == {AUTHORITY, U1, U2}

CONFIG == <<"config", NONE, NONE, NONE>>
TREASURY_VAULT == <<"treasury_vault", NONE, NONE, NONE>>
REWARD_VAULT == <<"reward_vault", NONE, NONE, NONE>>
TOKEN_WHITELIST == <<"token_whitelist", NONE, NONE, NONE>>

ListingKey(seller, listing_seed) == <<"listing", seller[2], listing_seed, NONE>>
OrderKey(listing, buyer) == <<"order", listing[2], listing[3], buyer[2]>>
ContestKey(creator, contest_seed) == <<"contest", creator[2], contest_seed, NONE>>
EntryKey(contest, entry_seed) == <<"contest_entry", contest[2], contest[3], entry_seed>>
PlanKey(creator, plan_seed) == <<"sub_plan", creator[2], plan_seed, NONE>>
InstanceKey(subscriber, instance_seed) == <<"sub_instance", subscriber[2], instance_seed, NONE>>

NATIVE_MINT == <<"mint", "native", NONE, NONE>>
USDC_MINT == <<"mint", "usdc", NONE, NONE>>
\* a currency no listing or plan is priced in
EURC_MINT == <<"mint", "eurc", NONE, NONE>>

is_native_mint(mint) == mint = NATIVE_MINT

\* token::ID, and the token accounts that exist beside the program's records:
\* one of each party, a second one of the order address, and one of the seller
\* in the other currency
TOKEN_PROGRAM == <<"program", "token", NONE, NONE>>
TokenAccountKey(name) == <<"token_account", name, NONE, NONE>>
BUYER_ATA == TokenAccountKey("u2")
SELLER_ATA == TokenAccountKey("u1")
TREASURY_ATA == TokenAccountKey("treasury_vault")
ORDER_ATA == TokenAccountKey("order")
ORDER_ATA_SHORT == TokenAccountKey("order_short")
SELLER_ATA_EURC == TokenAccountKey("u1_eurc")
TokenAccountKeys ==
    {BUYER_ATA, SELLER_ATA, TREASURY_ATA, ORDER_ATA, ORDER_ATA_SHORT,
     SELLER_ATA_EURC}

\* ---- the inputs the model draws from ----
Sellers == {U1}
ListingSeeds == {"s1"}
Hashes == {"h1"}
Mints == {NATIVE_MINT, USDC_MINT}
Prices == {0, 40, 1000}
FeeInputs == {0, 250, 10001}
VaultKeys == {TREASURY_VAULT, REWARD_VAULT}
\* what set_admin_config is called with: a new rate, the vaults swapped, a bad rate
AdminInputs ==
    {[fee_bps |-> 250, treasury |-> TREASURY_VAULT, reward_vault |-> REWARD_VAULT],
     [fee_bps |-> 10000, treasury |-> REWARD_VAULT, reward_vault |-> TREASURY_VAULT],
     [fee_bps |-> 10001, treasury |-> TREASURY_VAULT, reward_vault |-> REWARD_VAULT]}
Creators == {U1}
ContestSeeds == {"c1"}
\* a second contest of the same creator, created only in the "winner" scope
RivalSeeds == {"c2"}
EntrySeeds == {"e1", "e2"}
Contestants == {U1, U2}
PrizeInputs == {0, 5000}
ScoreInputs == {7}
DeadlineInputs == {0, 1, 2}
PlanCreators == {U1}
PlanSeeds == {"p1"}
\* a second plan of the same creator, configured only in the "plans" scope
RivalPlanSeeds == {"p2"}
InstanceSeeds == {"i1"}
Subscribers == {U2}
PeriodInputs == {0, 2}
\* now_ts is a caller-supplied i64: before, at and after the epoch
NowInputs == {-3, -1, 0, 1}

ListingKeys == {ListingKey(s, k) : s \in Sellers, k \in ListingSeeds}
OrderKeys == {OrderKey(l, b) : l \in ListingKeys, b \in Users}
ContestKeys == {ContestKey(c, k) : c \in Creators, k \in ContestSeeds}
EntryKeys == {EntryKey(c, e) : c \in ContestKeys, e \in EntrySeeds}
RivalKeys == {ContestKey(c, k) : c \in Creators, k \in RivalSeeds}
RivalEntryKeys == {EntryKey(c, e) : c \in RivalKeys, e \in EntrySeeds}
PlanKeys == {PlanKey(c, k) : c \in PlanCreators, k \in PlanSeeds}
InstanceKeys == {InstanceKey(s, k) : s \in Subscribers, k \in InstanceSeeds}
RivalPlanKeys == {PlanKey(c, k) : c \in PlanCreators, k \in RivalPlanSeeds}

Addresses ==
    Users \cup {CONFIG, TREASURY_VAULT, REWARD_VAULT, TOKEN_WHITELIST}
          \cup ListingKeys \cup OrderKeys \cup ContestKeys \cup EntryKeys
          \cup PlanKeys \cup InstanceKeys \cup RivalKeys \cup RivalEntryKeys
          \cup TokenAccountKeys \cup RivalPlanKeys

\* an off-chain ed25519 signature: who signed which message
Signatures == [signer : {U1, U2}, msg : Hashes]

\* the platform's storage deposit of one record, and the clock's last tick
RentExemptMinimum == 100
MaxTime == 2
DepositAmount == 5000

minimum_balance(space) == RentExemptMinimum

VARIABLES
    lamports,   \* native balance of every address
    data,       \* the program-owned records: address -> contents, by existence
    now,        \* Clock::get()?.unix_timestamp
    last,       \* the last instruction, who signed it and how it ended
    hist,       \* history: what has happened to each address so far
    scope,      \* which instruction family this run exercises (a bound)
    tokens      \* the SPL token accounts: mint, owner, amount, open

ledgerVars == <<lamports, data, now, last, hist, scope, tokens>>

(***************************************************************************)
(* Platform primitives: lamport moves, account creation and closing, and   *)
(* what Anchor checks when it loads an account.                            *)
(***************************************************************************)
Transfer(l, from, to, amount) ==
    [l EXCEPT ![from] = @ - amount, ![to] = @ + amount]

Without(d, key) == [a \in (DOMAIN d) \ {key} |-> d[a]]

\* Account<T>::try_from: the address holds a record of the expected kind
Deser(key, kind) ==
    IF key \notin DOMAIN data
    THEN IF lamports[key] = 0 THEN "AccountNotInitialized"
         ELSE "AccountOwnedByWrongProgram"
    ELSE IF data[key].kind # kind THEN "AccountDiscriminatorMismatch"
    ELSE "ok"

\* #[account(init, payer = ...)]: the system program creates the account
InitCheck(l, payer, key) ==
    IF key \in DOMAIN data THEN "AccountAlreadyInUse"
    ELSE IF l[payer] < minimum_balance(0) THEN "InsufficientFunds"
    ELSE "ok"

InitFund(l, payer, key) == Transfer(l, payer, key, minimum_balance(0))

\* #[account(close = dest)]: every lamport of the record goes to dest
CloseLamports(l, key, dest) ==
    [l EXCEPT ![dest] = @ + l[key], ![key] = 0]

Sat(n) == IF n < 2 THEN n + 1 ELSE n

Result(op, signer, err) == [op |-> op, signer |-> signer, err |-> err]

Failed == /\ last'.err # "ok"
          /\ UNCHANGED <<lamports, data, hist>>

Config == data[CONFIG]

TokenAccount(mint, owner, amount) ==
    [mint |-> mint, owner |-> owner, amount |-> amount, open |-> TRUE]

\* the buyer holds 1000 tokens; the second token account of the order address
\* was sent 999 by somebody
InitTokens ==
    (BUYER_ATA :> TokenAccount(USDC_MINT, U2, 1000))
    @@ (SELLER_ATA :> TokenAccount(USDC_MINT, U1, 0))
    @@ (TREASURY_ATA :> TokenAccount(USDC_MINT, TREASURY_VAULT, 0))
    @@ (ORDER_ATA :> TokenAccount(USDC_MINT, OrderKey(ListingKey(U1, "s1"), U2), 0))
    @@ (ORDER_ATA_SHORT :>
          TokenAccount(USDC_MINT, OrderKey(ListingKey(U1, "s1"), U2), 999))
    @@ (SELLER_ATA_EURC :> TokenAccount(EURC_MINT, U1, 0))

InitLedger(funds) ==
    /\ scope \in DOMAIN funds
    /\ lamports = [a \in Addresses |->
                      IF a \in Users THEN funds[scope][a]
                      ELSE IF a \in TokenAccountKeys THEN minimum_balance(0)
                      ELSE 0]
    /\ tokens = InitTokens
    /\ data = <<>>
    /\ now = 0
    /\ last = Result("none", NOBODY, "ok")
    /\ hist = [purchases  |-> [k \in ListingKeys |-> 0],
               purchase_fee_bps |-> [k \in ListingKeys |-> NONE],
               finalizes  |-> [k \in OrderKeys |-> 0],
               resolves   |-> [k \in ContestKeys \cup RivalKeys |-> 0],
               deactivated |-> {}]

(***************************************************************************)
(* admin.rs: initialize_config, set_admin_config                           *)
(***************************************************************************)
initialize_config_err(authority, fee_bps) ==
    IF CONFIG \in DOMAIN data THEN "AccountAlreadyInUse"
    ELSE IF lamports[authority] < 4 * minimum_balance(0) THEN "InsufficientFunds"
    ELSE IF ~(fee_bps <= 10000) THEN "InvalidFeeBps"
    ELSE "ok"

initialize_config(authority, fee_bps) ==
    LET err == initialize_config_err(authority, fee_bps)
        l1  == InitFund(lamports, authority, CONFIG)
        l2  == InitFund(l1, authority, TREASURY_VAULT)
        l3  == InitFund(l2, authority, REWARD_VAULT)
        l4  == InitFund(l3, authority, TOKEN_WHITELIST)
    IN  /\ last' = Result("initialize_config", authority, err)
        /\ IF err = "ok"
           THEN /\ lamports' = l4
                /\ data' = (CONFIG :> [kind |-> "MarketplaceConfig",
                                       authority |-> authority,
                                       treasury |-> TREASURY_VAULT,
                                       fee_bps |-> fee_bps,
                                       reward_vault |-> REWARD_VAULT,
                                       whitelist |-> TOKEN_WHITELIST])
                           @@ (TREASURY_VAULT :> [kind |-> "VaultAccount"])
                           @@ (REWARD_VAULT :> [kind |-> "VaultAccount"])
                           @@ (TOKEN_WHITELIST :> [kind |-> "TokenWhitelist",
                                                   authority |-> authority,
                                                   allowed_mints |-> <<>>])
                           @@ data
                /\ UNCHANGED hist
           ELSE Failed
        /\ UNCHANGED <<now, scope, tokens>>

\* set_admin_config without the require! on fee_bps
set_admin_config_err_no_fee_check(authority, fee_bps) ==
    IF Deser(CONFIG, "MarketplaceConfig") # "ok"
    THEN Deser(CONFIG, "MarketplaceConfig")
    ELSE IF Config.authority # authority THEN "ConstraintHasOne"
    ELSE "ok"

set_admin_config_err(authority, fee_bps) ==
    IF Deser(CONFIG, "MarketplaceConfig") # "ok"
    THEN Deser(CONFIG, "MarketplaceConfig")
    ELSE IF Config.authority # authority THEN "ConstraintHasOne"
    ELSE IF ~(fee_bps <= 10000) THEN "InvalidFeeBps"
    ELSE "ok"

set_admin_config(authority, fee_bps, treasury, reward_vault) ==
    LET err == set_admin_config_err(authority, fee_bps)
    IN  /\ last' = Result("set_admin_config", authority, err)
        /\ IF err = "ok"
           THEN /\ data' = [data EXCEPT ![CONFIG].fee_bps = fee_bps,
                                        ![CONFIG].treasury = treasury,
                                        ![CONFIG].reward_vault = reward_vault]
                /\ UNCHANGED <<lamports, hist>>
           ELSE Failed
        /\ UNCHANGED <<now, scope, tokens>>

\* the accounts every marketplace instruction loads first: config and a vault
ConfigAndVault(vault) ==
    IF Deser(CONFIG, "MarketplaceConfig") # "ok"
    THEN Deser(CONFIG, "MarketplaceConfig")
    ELSE Deser(vault, "VaultAccount")

Contains(seq, x) == \E i \in 1..Len(seq) : seq[i] = x

\* TokenWhitelist::MAX_MINTS
MAX_MINTS == 32

update_whitelist_err(authority, params) ==
    IF Deser(TOKEN_WHITELIST, "TokenWhitelist") # "ok"
    THEN Deser(TOKEN_WHITELIST, "TokenWhitelist")
    ELSE IF data[TOKEN_WHITELIST].authority # authority THEN "ConstraintHasOne"
    ELSE IF params.add /\ Contains(data[TOKEN_WHITELIST].allowed_mints, params.mint)
    THEN "TokenAlreadyWhitelisted"
    ELSE IF params.add /\ ~(Len(data[TOKEN_WHITELIST].allowed_mints) < MAX_MINTS)
    THEN "WhitelistFull"
    ELSE "ok"

\* Vec::retain(|m| m != &mint)
RECURSIVE retain(_, _)
retain(seq, mint) ==
    IF seq = <<>> THEN <<>>
    ELSE IF Head(seq) = mint THEN retain(Tail(seq), mint)
    ELSE <<Head(seq)>> \o retain(Tail(seq), mint)

update_whitelist(authority, params) ==
    LET err == update_whitelist_err(authority, params)
    IN  /\ last' = Result("update_whitelist", authority, err)
        /\ IF err = "ok"
           THEN /\ data' = [data EXCEPT ![TOKEN_WHITELIST].allowed_mints =
                               IF params.add THEN Append(@, params.mint)
                               ELSE retain(@, params.mint)]
                /\ UNCHANGED <<lamports, hist>>
           ELSE Failed
        /\ UNCHANGED <<now, scope, tokens>>

\* the checks shared by withdraw_treasury_native and withdraw_reward_native
withdraw_native_handler_err(source, params) ==
    IF ~(params.amount > 0) THEN "AmountMustBePositive"
    ELSE IF ~(lamports[source] >= params.amount) THEN "EscrowBalanceTooLow"
    ELSE IF ~(lamports[source] - params.amount >= minimum_balance(0))
    THEN "RentExemptionViolation"
    ELSE "ok"

withdraw_treasury_native_err(authority, treasury_vault, destination, params) ==
    IF ConfigAndVault(treasury_vault) # "ok" THEN ConfigAndVault(treasury_vault)
    ELSE IF Config.authority # authority THEN "ConstraintHasOne"
    ELSE IF treasury_vault # TREASURY_VAULT THEN "ConstraintSeeds"
    ELSE IF treasury_vault # Config.treasury THEN "ConstraintAddress"
    ELSE withdraw_native_handler_err(treasury_vault, params)

withdraw_treasury_native(authority, treasury_vault, destination, params) ==
    LET err == withdraw_treasury_native_err(authority, treasury_vault,
                                            destination, params)
    IN  /\ last' = Result("withdraw_treasury_native", authority, err)
        /\ IF err = "ok"
           THEN /\ lamports' = Transfer(lamports, treasury_vault, destination,
                                        params.amount)
                /\ UNCHANGED <<data, hist>>
           ELSE Failed
        /\ UNCHANGED <<now, scope, tokens>>

withdraw_reward_native_err(authority, reward_vault, destination, params) ==
    IF ConfigAndVault(reward_vault) # "ok" THEN ConfigAndVault(reward_vault)
    ELSE IF Config.authority # authority THEN "ConstraintHasOne"
    ELSE IF reward_vault # REWARD_VAULT THEN "ConstraintSeeds"
    ELSE IF reward_vault # Config.reward_vault THEN "ConstraintAddress"
    ELSE withdraw_native_handler_err(reward_vault, params)

withdraw_reward_native(authority, reward_vault, destination, params) ==
    LET err == withdraw_reward_native_err(authority, reward_vault,
                                          destination, params)
    IN  /\ last' = Result("withdraw_reward_native", authority, err)
        /\ IF err = "ok"
           THEN /\ lamports' = Transfer(lamports, reward_vault, destination,
                                        params.amount)
                /\ UNCHANGED <<data, hist>>
           ELSE Failed
        /\ UNCHANGED <<now, scope, tokens>>

(***************************************************************************)
(* listing.rs: create_listing, cancel_listing                              *)
(***************************************************************************)
verify_author_signature(expected_signer, message, signature) ==
    IF signature.signer = expected_signer /\ signature.msg = message
    THEN "ok" ELSE "InvalidOffchainSignature"

\* create_listing without the require! on the whitelist
create_listing_err_no_whitelist(authority, seller, treasury, params) ==
    LET listing == ListingKey(seller, params.listing_seed)
    IN  IF ConfigAndVault(treasury) # "ok" THEN ConfigAndVault(treasury)
        ELSE IF Deser(TOKEN_WHITELIST, "TokenWhitelist") # "ok"
        THEN Deser(TOKEN_WHITELIST, "TokenWhitelist")
        ELSE IF InitCheck(lamports, authority, listing) # "ok"
        THEN InitCheck(lamports, authority, listing)
        ELSE IF Config.authority # authority THEN "ConstraintHasOne"
        ELSE IF Config.treasury # treasury THEN "ConstraintHasOne"
        ELSE IF Config.whitelist # TOKEN_WHITELIST THEN "ConstraintHasOne"
        ELSE IF verify_author_signature(seller, params.offchain_hash,
                                        params.seller_signature) # "ok"
        THEN "InvalidOffchainSignature"
        ELSE "ok"

create_listing_err(authority, seller, treasury, params) ==
    LET listing == ListingKey(seller, params.listing_seed)
    IN  IF ConfigAndVault(treasury) # "ok" THEN ConfigAndVault(treasury)
        ELSE IF Deser(TOKEN_WHITELIST, "TokenWhitelist") # "ok"
        THEN Deser(TOKEN_WHITELIST, "TokenWhitelist")
        ELSE IF InitCheck(lamports, authority, listing) # "ok"
        THEN InitCheck(lamports, authority, listing)
        ELSE IF Config.authority # authority THEN "ConstraintHasOne"
        ELSE IF Config.treasury # treasury THEN "ConstraintHasOne"
        ELSE IF Config.whitelist # TOKEN_WHITELIST THEN "ConstraintHasOne"
        ELSE IF verify_author_signature(seller, params.offchain_hash,
                                        params.seller_signature) # "ok"
        THEN "InvalidOffchainSignature"
        ELSE IF ~is_native_mint(params.mint)
                /\ ~Contains(data[TOKEN_WHITELIST].allowed_mints, params.mint)
        THEN "TokenNotWhitelisted"
        ELSE "ok"

NewListing(seller, params) ==
    [kind |-> "ListingAccount",
     seller |-> seller,
     mint |-> params.mint,
     price_lamports |-> params.price_lamports,
     listing_seed |-> params.listing_seed,
     offchain_hash |-> params.offchain_hash,
     active |-> TRUE]

create_listing(authority, seller, treasury, params) ==
    LET err     == create_listing_err(authority, seller, treasury, params)
        listing == ListingKey(seller, params.listing_seed)
    IN  /\ last' = Result("create_listing", authority, err)
        /\ IF err = "ok"
           THEN /\ lamports' = InitFund(lamports, authority, listing)
                /\ data' = (listing :> NewListing(seller, params)) @@ data
                /\ UNCHANGED hist
           ELSE Failed
        /\ UNCHANGED <<now, scope, tokens>>

\* cancel_listing without require!(listing.active)
cancel_listing_err_no_active_check(seller, listing, treasury) ==
    IF Deser(CONFIG, "MarketplaceConfig") # "ok"
    THEN Deser(CONFIG, "MarketplaceConfig")
    ELSE IF Deser(listing, "ListingAccount") # "ok"
    THEN Deser(listing, "ListingAccount")
    ELSE IF Deser(treasury, "VaultAccount") # "ok"
    THEN Deser(treasury, "VaultAccount")
    ELSE IF Config.treasury # treasury THEN "ConstraintHasOne"
    ELSE IF ListingKey(seller, data[listing].listing_seed) # listing
    THEN "ConstraintSeeds"
    ELSE IF data[listing].seller # seller THEN "InvalidAuthority"
    ELSE "ok"

cancel_listing_err(seller, listing, treasury) ==
    IF Deser(CONFIG, "MarketplaceConfig") # "ok"
    THEN Deser(CONFIG, "MarketplaceConfig")
    ELSE IF Deser(listing, "ListingAccount") # "ok"
    THEN Deser(listing, "ListingAccount")
    ELSE IF Deser(treasury, "VaultAccount") # "ok"
    THEN Deser(treasury, "VaultAccount")
    ELSE IF Config.treasury # treasury THEN "ConstraintHasOne"
    ELSE IF ListingKey(seller, data[listing].listing_seed) # listing
    THEN "ConstraintSeeds"
    ELSE IF data[listing].seller # seller THEN "InvalidAuthority"
    ELSE IF ~data[listing].active THEN "ListingNotActive"
    ELSE "ok"

cancel_listing(seller, listing, treasury) ==
    LET err == cancel_listing_err(seller, listing, treasury)
    IN  /\ last' = Result("cancel_listing", seller, err)
        /\ IF err = "ok"
           THEN /\ lamports' = CloseLamports(lamports, listing, treasury)
                /\ data' = Without(data, listing)
                /\ hist' = [hist EXCEPT !.deactivated = @ \cup {listing}]
           ELSE Failed
        /\ UNCHANGED <<now, scope, tokens>>

(***************************************************************************)
(* The SPL token program, as the instructions use it through               *)
(* anchor_spl::token: account validation, transfer, close_account.         *)
(***************************************************************************)
\* Account::<TokenAccount>::try_from alone
validate_token_account_unchecked(t, account_info, expected_mint, expected_owner) ==
    IF account_info \notin TokenAccountKeys THEN "AccountOwnedByWrongProgram"
    ELSE IF ~t[account_info].open THEN "AccountNotInitialized"
    ELSE "ok"

\* Account::<TokenAccount>::try_from and the two require_keys_eq! after it
validate_token_account(t, account_info, expected_mint, expected_owner) ==
    IF account_info \notin TokenAccountKeys THEN "AccountOwnedByWrongProgram"
    ELSE IF ~t[account_info].open THEN "AccountNotInitialized"
    ELSE IF t[account_info].mint # expected_mint THEN "TokenAccountMintMismatch"
    ELSE IF t[account_info].owner # expected_owner THEN "TokenAccountOwnerMismatch"
    ELSE "ok"

\* token::transfer: the token program's own checks, in its order
token_transfer_err(t, from, to, authority, amount) ==
    IF from \notin TokenAccountKeys \/ to \notin TokenAccountKeys
    THEN "InvalidAccountData"
    ELSE IF ~t[from].open \/ ~t[to].open THEN "UninitializedAccount"
    ELSE IF t[from].amount < amount THEN "InsufficientFunds"
    ELSE IF t[from].mint # t[to].mint THEN "MintMismatch"
    ELSE IF t[from].owner # authority THEN "OwnerMismatch"
    ELSE "ok"

token_transfer(t, from, to, amount) ==
    IF from = to THEN t
    ELSE [t EXCEPT ![from].amount = @ - amount, ![to].amount = @ + amount]

\* token::close_account: only an empty token account can be closed
close_account_err(t, account, authority) ==
    IF account \notin TokenAccountKeys THEN "InvalidAccountData"
    ELSE IF ~t[account].open THEN "UninitializedAccount"
    ELSE IF t[account].amount # 0 THEN "NonNativeHasBalance"
    ELSE IF t[account].owner # authority THEN "OwnerMismatch"
    ELSE "ok"

close_account(t, account) == [t EXCEPT ![account].open = FALSE]

\* the first error of a run of checks, "ok" when there is none
FirstErr(errs) ==
    IF \E i \in 1..Len(errs) : errs[i] # "ok"
    THEN errs[CHOOSE i \in 1..Len(errs) :
                 errs[i] # "ok" /\ \A j \in 1..(i - 1) : errs[j] = "ok"]
    ELSE "ok"

\* what a handler has written when it returns: its result, the balances and
\* the token accounts
Out(err, l, t) == [err |-> err, l |-> l, t |-> t]

\* the runtime keeps the writes of an instruction only when it returns Ok
Rollback_keeps_writes(err, written, before) == written

Rollback(err, written, before) == IF err = "ok" THEN written ELSE before

(***************************************************************************)
(* order.rs: purchase_listing, finalize_order                              *)
(***************************************************************************)
\* remaining_accounts: [mint, buyer ATA, order ATA, seller ATA, treasury ATA,
\* token_program]
handle_spl_purchase(t, l, buyer, listing, order, remaining_accounts, amount) ==
    IF ~(Len(remaining_accounts) >= 6) THEN Out("MissingTokenAccounts", l, t)
    ELSE LET mint == data[listing].mint
             buyer_token_ai == remaining_accounts[2]
             order_token_ai == remaining_accounts[3]
             seller_token_ai == remaining_accounts[4]
             treasury_token_ai == remaining_accounts[5]
             err == FirstErr(<<
                 IF remaining_accounts[1] # mint
                 THEN "TokenAccountMintMismatch" ELSE "ok",
                 IF remaining_accounts[6] # TOKEN_PROGRAM
                 THEN "InvalidTokenProgram" ELSE "ok",
                 validate_token_account(t, buyer_token_ai, mint, buyer),
                 validate_token_account(t, order_token_ai, mint, order),
                 validate_token_account(t, seller_token_ai, mint,
                                        data[listing].seller),
                 validate_token_account(t, treasury_token_ai, mint,
                                        Config.treasury),
                 token_transfer_err(t, buyer_token_ai, order_token_ai, buyer,
                                    amount)>>)
         IN  IF err # "ok" THEN Out(err, l, t)
             ELSE Out("ok", l, token_transfer(t, buyer_token_ai, order_token_ai,
                                              amount))

handle_spl_finalize_no_balance_check(t, l, order, buyer, remaining_accounts, seller_amount, fee_amount) ==
    IF ~(Len(remaining_accounts) >= 5) THEN Out("MissingTokenAccounts", l, t)
    ELSE LET mint == data[order].mint
             order_token_ai == remaining_accounts[2]
             seller_token_ai == remaining_accounts[3]
             treasury_token_ai == remaining_accounts[4]
             valid == FirstErr(<<
                 IF remaining_accounts[1] # mint
                 THEN "TokenAccountMintMismatch" ELSE "ok",
                 IF remaining_accounts[5] # TOKEN_PROGRAM
                 THEN "InvalidTokenProgram" ELSE "ok",
                 validate_token_account(t, order_token_ai, mint, order),
                 validate_token_account(t, seller_token_ai, mint,
                                        data[order].seller),
                 validate_token_account(t, treasury_token_ai, mint,
                                        Config.treasury)>>)
             e1 == IF seller_amount > 0
                   THEN token_transfer_err(t, order_token_ai, seller_token_ai,
                                           order, seller_amount)
                   ELSE "ok"
             t1 == IF seller_amount > 0
                   THEN token_transfer(t, order_token_ai, seller_token_ai,
                                       seller_amount)
                   ELSE t
             e2 == IF fee_amount > 0
                   THEN token_transfer_err(t1, order_token_ai, treasury_token_ai,
                                           order, fee_amount)
                   ELSE "ok"
             t2 == IF fee_amount > 0
                   THEN token_transfer(t1, order_token_ai, treasury_token_ai,
                                       fee_amount)
                   ELSE t1
             e3 == close_account_err(t2, order_token_ai, order)
         IN  IF valid # "ok" THEN Out(valid, l, t)
             ELSE IF e1 # "ok" THEN Out(e1, l, t)
             ELSE IF e2 # "ok" THEN Out(e2, l, t1)
             ELSE IF e3 # "ok" THEN Out(e3, l, t2)
             ELSE Out("ok", CloseLamports(l, order_token_ai, buyer),
                      close_account(t2, order_token_ai))

\* handle_spl_finalize with close_account ahead of the two transfers
handle_spl_finalize_close_first(t, l, order, buyer, remaining_accounts, seller_amount, fee_amount) ==
    IF ~(Len(remaining_accounts) >= 5) THEN Out("MissingTokenAccounts", l, t)
    ELSE LET mint == data[order].mint
             order_token_ai == remaining_accounts[2]
             seller_token_ai == remaining_accounts[3]
             treasury_token_ai == remaining_accounts[4]
             valid == FirstErr(<<
                 IF remaining_accounts[1] # mint
                 THEN "TokenAccountMintMismatch" ELSE "ok",
                 IF remaining_accounts[5] # TOKEN_PROGRAM
                 THEN "InvalidTokenProgram" ELSE "ok",
                 validate_token_account(t, order_token_ai, mint, order),
                 validate_token_account(t, seller_token_ai, mint,
                                        data[order].seller),
                 validate_token_account(t, treasury_token_ai, mint,
                                        Config.treasury)>>)
             e1 == IF seller_amount > 0
                   THEN token_transfer_err(t, order_token_ai, seller_token_ai,
                                           order, seller_amount)
                   ELSE "ok"
             t1 == IF seller_amount > 0
                   THEN token_transfer(t, order_token_ai, seller_token_ai,
                                       seller_amount)
                   ELSE t
             e2 == IF fee_amount > 0
                   THEN token_transfer_err(t1, order_token_ai, treasury_token_ai,
                                           order, fee_amount)
                   ELSE "ok"
             t2 == IF fee_amount > 0
                   THEN token_transfer(t1, order_token_ai, treasury_token_ai,
                                       fee_amount)
                   ELSE t1
             e3 == close_account_err(t, order_token_ai, order)
         IN  IF valid # "ok" THEN Out(valid, l, t)
             ELSE IF ~(t[order_token_ai].amount >= seller_amount + fee_amount)
             THEN Out("EscrowBalanceTooLow", l, t)
             ELSE IF e1 # "ok" THEN Out(e1, l, t)
             ELSE IF e2 # "ok" THEN Out(e2, l, t1)
             ELSE IF e3 # "ok" THEN Out(e3, l, t2)
             ELSE Out("ok", CloseLamports(l, order_token_ai, buyer),
                      close_account(t2, order_token_ai))

\* remaining_accounts: [mint, order ATA, seller ATA, treasury ATA, token_program]
handle_spl_finalize(t, l, order, buyer, remaining_accounts, seller_amount, fee_amount) ==
    IF ~(Len(remaining_accounts) >= 5) THEN Out("MissingTokenAccounts", l, t)
    ELSE LET mint == data[order].mint
             order_token_ai == remaining_accounts[2]
             seller_token_ai == remaining_accounts[3]
             treasury_token_ai == remaining_accounts[4]
             valid == FirstErr(<<
                 IF remaining_accounts[1] # mint
                 THEN "TokenAccountMintMismatch" ELSE "ok",
                 IF remaining_accounts[5] # TOKEN_PROGRAM
                 THEN "InvalidTokenProgram" ELSE "ok",
                 validate_token_account(t, order_token_ai, mint, order),
                 validate_token_account(t, seller_token_ai, mint,
                                        data[order].seller),
                 validate_token_account(t, treasury_token_ai, mint,
                                        Config.treasury)>>)
             e1 == IF seller_amount > 0
                   THEN token_transfer_err(t, order_token_ai, seller_token_ai,
                                           order, seller_amount)
                   ELSE "ok"
             t1 == IF seller_amount > 0
                   THEN token_transfer(t, order_token_ai, seller_token_ai,
                                       seller_amount)
                   ELSE t
             e2 == IF fee_amount > 0
                   THEN token_transfer_err(t1, order_token_ai, treasury_token_ai,
                                           order, fee_amount)
                   ELSE "ok"
             t2 == IF fee_amount > 0
                   THEN token_transfer(t1, order_token_ai, treasury_token_ai,
                                       fee_amount)
                   ELSE t1
             e3 == close_account_err(t2, order_token_ai, order)
         IN  IF valid # "ok" THEN Out(valid, l, t)
             ELSE IF ~(t[order_token_ai].amount >= seller_amount + fee_amount)
             THEN Out("EscrowBalanceTooLow", l, t)
             ELSE IF e1 # "ok" THEN Out(e1, l, t)
             ELSE IF e2 # "ok" THEN Out(e2, l, t1)
             ELSE IF e3 # "ok" THEN Out(e3, l, t2)
             ELSE Out("ok", CloseLamports(l, order_token_ai, buyer),
                      close_account(t2, order_token_ai))

purchase_listing_handler_no_price_check(buyer, listing, order, order_funded, params, remaining_accounts) ==
    IF is_native_mint(data[listing].mint)
    THEN IF order_funded[buyer] < data[listing].price_lamports
         THEN Out("InsufficientFunds", order_funded, tokens)
         ELSE Out("ok", Transfer(order_funded, buyer, order,
                                 data[listing].price_lamports), tokens)
    ELSE handle_spl_purchase(tokens, order_funded, buyer, listing, order,
                             remaining_accounts, data[listing].price_lamports)

\* purchase_listing without the native transfer into the order
purchase_listing_handler_no_escrow(buyer, listing, order, order_funded, params, remaining_accounts) ==
    IF data[listing].price_lamports # params.expected_price
    THEN Out("PriceMismatch", order_funded, tokens)
    ELSE IF is_native_mint(data[listing].mint)
    THEN IF order_funded[buyer] < data[listing].price_lamports
         THEN Out("InsufficientFunds", order_funded, tokens)
         ELSE Out("ok", order_funded, tokens)
    ELSE handle_spl_purchase(tokens, order_funded, buyer, listing, order,
                             remaining_accounts, data[listing].price_lamports)

\* the handler body; order_funded is the ledger once init has created the order
purchase_listing_handler(buyer, listing, order, order_funded, params, remaining_accounts) ==
    IF data[listing].price_lamports # params.expected_price
    THEN Out("PriceMismatch", order_funded, tokens)
    ELSE IF is_native_mint(data[listing].mint)
    THEN IF order_funded[buyer] < data[listing].price_lamports
         THEN Out("InsufficientFunds", order_funded, tokens)
         ELSE Out("ok", Transfer(order_funded, buyer, order,
                                 data[listing].price_lamports), tokens)
    ELSE handle_spl_purchase(tokens, order_funded, buyer, listing, order,
                             remaining_accounts, data[listing].price_lamports)

\* PurchaseListing without constraint = listing.active
PurchaseListingAccounts_no_active_check(buyer, listing, treasury, seller_destination) ==
    LET order == OrderKey(listing, buyer)
    IN  IF Deser(listing, "ListingAccount") # "ok"
        THEN Deser(listing, "ListingAccount")
        ELSE IF ConfigAndVault(treasury) # "ok" THEN ConfigAndVault(treasury)
        ELSE IF InitCheck(lamports, buyer, order) # "ok"
        THEN InitCheck(lamports, buyer, order)
        ELSE IF Config.treasury # treasury THEN "ConstraintHasOne"
        ELSE IF seller_destination # data[listing].seller THEN "ConstraintAddress"
        ELSE "ok"

\* #[derive(Accounts)] PurchaseListing: what Anchor checks before the handler
PurchaseListingAccounts(buyer, listing, treasury, seller_destination) ==
    LET order == OrderKey(listing, buyer)
    IN  IF Deser(listing, "ListingAccount") # "ok"
        THEN Deser(listing, "ListingAccount")
        ELSE IF ConfigAndVault(treasury) # "ok" THEN ConfigAndVault(treasury)
        ELSE IF InitCheck(lamports, buyer, order) # "ok"
        THEN InitCheck(lamports, buyer, order)
        ELSE IF ~data[listing].active THEN "ListingNotActive"
        ELSE IF Config.treasury # treasury THEN "ConstraintHasOne"
        ELSE IF seller_destination # data[listing].seller THEN "ConstraintAddress"
        ELSE "ok"

\* the whole instruction: its result and what it had written when it returned
purchase_listing_run(buyer, listing, treasury, seller_destination, params, remaining_accounts) ==
    LET accounts == PurchaseListingAccounts(buyer, listing, treasury,
                                            seller_destination)
        order    == OrderKey(listing, buyer)
    IN  IF accounts # "ok" THEN Out(accounts, lamports, tokens)
        ELSE purchase_listing_handler(buyer, listing, order,
                 InitFund(lamports, buyer, order), params, remaining_accounts)

purchase_listing_err(buyer, listing, treasury, seller_destination, params, remaining_accounts) ==
    purchase_listing_run(buyer, listing, treasury, seller_destination, params,
                         remaining_accounts).err

\* the order record with amount_paid left as init zeroed it
NewOrder_amount_unset(buyer, listing) ==
    [kind |-> "OrderAccount",
     buyer |-> buyer,
     seller |-> data[listing].seller,
     listing |-> listing,
     mint |-> data[listing].mint,
     amount_paid |-> 0,
     settled |-> FALSE]

NewOrder(buyer, listing) ==
    [kind |-> "OrderAccount",
     buyer |-> buyer,
     seller |-> data[listing].seller,
     listing |-> listing,
     mint |-> data[listing].mint,
     amount_paid |-> data[listing].price_lamports,
     settled |-> FALSE]

deactivate_keeps_active(listing_account) == listing_account

deactivate(listing_account) == [listing_account EXCEPT !.active = FALSE]

\* the scope in which the history keeps the rate in force at a purchase
RateHistoryScopes == {"rate"}

purchase_listing(buyer, listing, treasury, seller_destination, params, remaining_accounts) ==
    LET run   == purchase_listing_run(buyer, listing, treasury,
                     seller_destination, params, remaining_accounts)
        order == OrderKey(listing, buyer)
    IN  /\ last' = Result("purchase_listing", buyer, run.err)
        /\ lamports' = Rollback(run.err, run.l, lamports)
        /\ tokens' = Rollback(run.err, run.t, tokens)
        /\ IF run.err = "ok"
           THEN /\ data' = (order :> NewOrder(buyer, listing))
                           @@ [data EXCEPT ![listing] = deactivate(@)]
                /\ hist' = [hist EXCEPT !.purchases[listing] = Sat(@),
                                        !.purchase_fee_bps[listing] =
                                            IF scope \in RateHistoryScopes
                                            THEN Config.fee_bps ELSE @,
                                        !.deactivated = @ \cup {listing}]
           ELSE UNCHANGED <<data, hist>>
        /\ UNCHANGED <<now, scope>>

Fee(amount, fee_bps) == compute_fee(to_le_bytes(amount, 8), fee_bps)

\* amount_paid.checked_sub(fee_amount)
checked_sub(a, b) == IF b > a THEN [some |-> FALSE, val |-> 0]
                     ELSE [some |-> TRUE, val |-> a - b]

FinalizeOrderAccounts_any_signer(authority, treasury, order, buyer, seller_destination) ==
    IF ConfigAndVault(treasury) # "ok" THEN ConfigAndVault(treasury)
    ELSE IF Deser(order, "OrderAccount") # "ok" THEN Deser(order, "OrderAccount")
    ELSE IF Config.treasury # treasury THEN "ConstraintHasOne"
    ELSE IF data[order].settled THEN "OrderAlreadySettled"
    ELSE IF buyer # data[order].buyer THEN "ConstraintAddress"
    ELSE IF seller_destination # data[order].seller THEN "ConstraintAddress"
    ELSE "ok"

\* #[derive(Accounts)] FinalizeOrder: what Anchor checks before the handler
FinalizeOrderAccounts(authority, treasury, order, buyer, seller_destination) ==
    IF ConfigAndVault(treasury) # "ok" THEN ConfigAndVault(treasury)
    ELSE IF Deser(order, "OrderAccount") # "ok" THEN Deser(order, "OrderAccount")
    ELSE IF Config.authority # authority THEN "ConstraintHasOne"
    ELSE IF Config.treasury # treasury THEN "ConstraintHasOne"
    ELSE IF data[order].settled THEN "OrderAlreadySettled"
    ELSE IF buyer # data[order].buyer THEN "ConstraintAddress"
    ELSE IF seller_destination # data[order].seller THEN "ConstraintAddress"
    ELSE "ok"

native_settle_seller_gets_all(l, order, treasury, seller_destination, amount_paid, fee_amount) ==
    [l EXCEPT ![order] = @ - amount_paid,
              ![treasury] = @ + fee_amount,
              ![seller_destination] = @ + amount_paid]

native_settle_swapped_legs(l, order, treasury, seller_destination, amount_paid, fee_amount) ==
    [l EXCEPT ![order] = @ - amount_paid,
              ![treasury] = @ + (amount_paid - fee_amount),
              ![seller_destination] = @ + fee_amount]

\* the native three-way shuffle of finalize_order
native_settle(l, order, treasury, seller_destination, amount_paid, fee_amount) ==
    [l EXCEPT ![order] = @ - amount_paid,
              ![treasury] = @ + fee_amount,
              ![seller_destination] = @ + (amount_paid - fee_amount)]

\* finalize_order charging the rate that was in force at the purchase
finalize_order_handler_purchase_rate(treasury, order, buyer, seller_destination, remaining_accounts) ==
    LET o   == data[order]
        fee == Fee(o.amount_paid, hist.purchase_fee_bps[o.listing])
        fee_amount == from_le_bytes(fee.val)
        seller_amount == checked_sub(o.amount_paid, fee_amount)
    IN  IF ~fee.ok THEN Out(fee.err, lamports, tokens)
        ELSE IF ~seller_amount.some THEN Out("MathOverflow", lamports, tokens)
        ELSE IF is_native_mint(o.mint)
        THEN IF ~(lamports[order] >= o.amount_paid)
             THEN Out("EscrowBalanceTooLow", lamports, tokens)
             ELSE Out("ok", native_settle(lamports, order, treasury,
                                seller_destination, o.amount_paid, fee_amount),
                      tokens)
        ELSE handle_spl_finalize(tokens, lamports, order, buyer,
                 remaining_accounts, seller_amount.val, fee_amount)

\* the handler body
finalize_order_handler(treasury, order, buyer, seller_destination, remaining_accounts) ==
    LET o   == data[order]
        fee == Fee(o.amount_paid, Config.fee_bps)
        fee_amount == from_le_bytes(fee.val)
        seller_amount == checked_sub(o.amount_paid, fee_amount)
    IN  IF ~fee.ok THEN Out(fee.err, lamports, tokens)
        ELSE IF ~seller_amount.some THEN Out("MathOverflow", lamports, tokens)
        ELSE IF is_native_mint(o.mint)
        THEN IF ~(lamports[order] >= o.amount_paid)
             THEN Out("EscrowBalanceTooLow", lamports, tokens)
             ELSE Out("ok", native_settle(lamports, order, treasury,
                                seller_destination, o.amount_paid, fee_amount),
                      tokens)
        ELSE handle_spl_finalize(tokens, lamports, order, buyer,
                 remaining_accounts, seller_amount.val, fee_amount)

\* the whole instruction, close = buyer included
finalize_order_run(authority, treasury, order, buyer, seller_destination, remaining_accounts) ==
    LET accounts == FinalizeOrderAccounts(authority, treasury, order, buyer,
                                          seller_destination)
        handler  == finalize_order_handler(treasury, order, buyer,
                                           seller_destination, remaining_accounts)
    IN  IF accounts # "ok" THEN Out(accounts, lamports, tokens)
        ELSE IF handler.err # "ok" THEN handler
        ELSE Out("ok", CloseLamports(handler.l, order, buyer), handler.t)

finalize_order_err(authority, treasury, order, buyer, seller_destination, remaining_accounts) ==
    finalize_order_run(authority, treasury, order, buyer, seller_destination,
                       remaining_accounts).err

finalize_order(authority, treasury, order, buyer, seller_destination, remaining_accounts) ==
    LET run == finalize_order_run(authority, treasury, order, buyer,
                                  seller_destination, remaining_accounts)
    IN  /\ last' = Result("finalize_order", authority, run.err)
        /\ lamports' = Rollback(run.err, run.l, lamports)
        /\ tokens' = Rollback(run.err, run.t, tokens)
        /\ IF run.err = "ok"
           THEN /\ data' = Without(data, order)
                /\ hist' = [hist EXCEPT !.finalizes[order] = Sat(@)]
           ELSE UNCHANGED <<data, hist>>
        /\ UNCHANGED <<now, scope>>

(***************************************************************************)
(* contest.rs: create_contest, submit_contest_entry, resolve_contest       *)
(***************************************************************************)
\* create_contest without the require! on the reward vault's balance
create_contest_err_no_balance_check(creator, reward_vault, params) ==
    LET contest == ContestKey(creator, params.contest_seed)
    IN  IF ConfigAndVault(reward_vault) # "ok" THEN ConfigAndVault(reward_vault)
        ELSE IF InitCheck(lamports, creator, contest) # "ok"
        THEN InitCheck(lamports, creator, contest)
        ELSE IF Config.reward_vault # reward_vault THEN "ConstraintHasOne"
        ELSE IF ~(params.prize_lamports > 0) THEN "InvalidPrizeAmount"
        ELSE IF ~(params.deadline > now) THEN "ContestDeadlinePassed"
        ELSE "ok"

create_contest_err(creator, reward_vault, params) ==
    LET contest == ContestKey(creator, params.contest_seed)
    IN  IF ConfigAndVault(reward_vault) # "ok" THEN ConfigAndVault(reward_vault)
        ELSE IF InitCheck(lamports, creator, contest) # "ok"
        THEN InitCheck(lamports, creator, contest)
        ELSE IF Config.reward_vault # reward_vault THEN "ConstraintHasOne"
        ELSE IF ~(params.prize_lamports > 0) THEN "InvalidPrizeAmount"
        ELSE IF ~(params.deadline > now) THEN "ContestDeadlinePassed"
        ELSE IF ~(lamports[reward_vault] >= params.prize_lamports)
        THEN "EscrowBalanceTooLow"
        ELSE "ok"

NewContest(creator, reward_vault, params) ==
    [kind |-> "ContestAccount",
     creator |-> creator,
     reward_pool |-> reward_vault,
     deadline |-> params.deadline,
     contest_seed |-> params.contest_seed,
     offchain_hash |-> params.offchain_hash,
     prize_lamports |-> params.prize_lamports,
     settled |-> FALSE]

\* the runtime deletes a record whose balance an instruction left at zero
Purge(d, l) == [a \in {k \in DOMAIN d : l[k] > 0} |-> d[a]]

create_contest(creator, reward_vault, params) ==
    LET err     == create_contest_err(creator, reward_vault, params)
        contest == ContestKey(creator, params.contest_seed)
    IN  /\ last' = Result("create_contest", creator, err)
        /\ IF err = "ok"
           THEN /\ lamports' = Transfer(InitFund(lamports, creator, contest),
                                        reward_vault, contest, params.prize_lamports)
                /\ data' = Purge((contest :> NewContest(creator, reward_vault,
                                                        params)) @@ data,
                                 lamports')
                /\ UNCHANGED hist
           ELSE Failed
        /\ UNCHANGED <<now, scope, tokens>>

submit_contest_entry_err(contestant, contest, params) ==
    LET entry == EntryKey(contest, params.entry_seed)
    IN  IF Deser(contest, "ContestAccount") # "ok"
        THEN Deser(contest, "ContestAccount")
        ELSE IF InitCheck(lamports, contestant, entry) # "ok"
        THEN InitCheck(lamports, contestant, entry)
        ELSE IF ContestKey(data[contest].creator, params.contest_seed) # contest
        THEN "ConstraintSeeds"
        ELSE IF data[contest].settled THEN "ContestResolved"
        ELSE IF ~(now <= data[contest].deadline) THEN "ContestDeadlinePassed"
        ELSE "ok"

NewEntry(contestant, contest, params) ==
    [kind |-> "ContestEntryAccount",
     contestant |-> contestant,
     contest |-> contest,
     entry_seed |-> params.entry_seed,
     offchain_hash |-> params.offchain_hash,
     score |-> 0]

submit_contest_entry(contestant, contest, params) ==
    LET err   == submit_contest_entry_err(contestant, contest, params)
        entry == EntryKey(contest, params.entry_seed)
    IN  /\ last' = Result("submit_contest_entry", contestant, err)
        /\ IF err = "ok"
           THEN /\ lamports' = InitFund(lamports, contestant, entry)
                /\ data' = (entry :> NewEntry(contestant, contest, params)) @@ data
                /\ UNCHANGED hist
           ELSE Failed
        /\ UNCHANGED <<now, scope, tokens>>

resolve_contest_handler_err_no_deadline(contest, entry, reward_destination, params) ==
    IF params.winner # reward_destination THEN "WinnerAccountMismatch"
    ELSE IF params.winner # data[entry].contestant THEN "WinnerAccountMismatch"
    ELSE IF ~(data[contest].prize_lamports > 0) THEN "InvalidPrizeAmount"
    ELSE IF ~(lamports[contest] >= data[contest].prize_lamports)
    THEN "EscrowBalanceTooLow"
    ELSE "ok"

resolve_contest_handler_err_no_entry_check(contest, entry, reward_destination, params) ==
    IF ~(now >= data[contest].deadline) THEN "ContestDeadlineNotReached"
    ELSE IF params.winner # reward_destination THEN "WinnerAccountMismatch"
    ELSE IF ~(data[contest].prize_lamports > 0) THEN "InvalidPrizeAmount"
    ELSE IF ~(lamports[contest] >= data[contest].prize_lamports)
    THEN "EscrowBalanceTooLow"
    ELSE "ok"

resolve_contest_handler_err(contest, entry, reward_destination, params) ==
    IF ~(now >= data[contest].deadline) THEN "ContestDeadlineNotReached"
    ELSE IF params.winner # reward_destination THEN "WinnerAccountMismatch"
    ELSE IF params.winner # data[entry].contestant THEN "WinnerAccountMismatch"
    ELSE IF ~(data[contest].prize_lamports > 0) THEN "InvalidPrizeAmount"
    ELSE IF ~(lamports[contest] >= data[contest].prize_lamports)
    THEN "EscrowBalanceTooLow"
    ELSE "ok"

\* #[derive(Accounts)] ResolveContest: what Anchor checks before the handler
ResolveContestAccounts(authority, reward_vault, contest, entry, params) ==
    IF ConfigAndVault(reward_vault) # "ok" THEN ConfigAndVault(reward_vault)
    ELSE IF Deser(contest, "ContestAccount") # "ok"
    THEN Deser(contest, "ContestAccount")
    ELSE IF Deser(entry, "ContestEntryAccount") # "ok"
    THEN Deser(entry, "ContestEntryAccount")
    ELSE IF Config.authority # authority THEN "ConstraintHasOne"
    ELSE IF Config.reward_vault # reward_vault THEN "ConstraintHasOne"
    ELSE IF ContestKey(data[contest].creator, params.contest_seed) # contest
    THEN "ConstraintSeeds"
    ELSE IF data[contest].settled THEN "ContestResolved"
    ELSE IF EntryKey(contest, params.entry_seed) # entry THEN "ConstraintSeeds"
    ELSE "ok"

resolve_contest_err(authority, reward_vault, contest, entry, reward_destination, params) ==
    LET accounts == ResolveContestAccounts(authority, reward_vault, contest,
                                           entry, params)
    IN  IF accounts # "ok" THEN accounts
        ELSE resolve_contest_handler_err(contest, entry, reward_destination,
                                         params)

resolve_contest(authority, reward_vault, contest, entry, reward_destination, params) ==
    LET err == resolve_contest_err(authority, reward_vault, contest, entry,
                                   reward_destination, params)
    IN  /\ last' = Result("resolve_contest", authority, err)
        /\ IF err = "ok"
           THEN /\ lamports' = CloseLamports(
                                 Transfer(lamports, contest, reward_destination,
                                          data[contest].prize_lamports),
                                 contest, reward_vault)
                /\ data' = Without([data EXCEPT ![entry].score = params.score],
                                   contest)
                /\ hist' = [hist EXCEPT !.resolves[contest] = Sat(@)]
           ELSE Failed
        /\ UNCHANGED <<now, scope, tokens>>

(***************************************************************************)
(* subscription.rs: configure_subscription, process_subscription_payment   *)
(***************************************************************************)
configure_subscription_err(creator, params) ==
    LET plan == PlanKey(creator, params.plan_seed)
    IN  IF Deser(CONFIG, "MarketplaceConfig") # "ok"
        THEN Deser(CONFIG, "MarketplaceConfig")
        ELSE IF Deser(TOKEN_WHITELIST, "TokenWhitelist") # "ok"
        THEN Deser(TOKEN_WHITELIST, "TokenWhitelist")
        ELSE IF InitCheck(lamports, creator, plan) # "ok"
        THEN InitCheck(lamports, creator, plan)
        ELSE IF Config.whitelist # TOKEN_WHITELIST THEN "ConstraintHasOne"
        ELSE IF ~(params.period_seconds > 0) THEN "MathOverflow"
        ELSE IF ~is_native_mint(params.mint)
                /\ ~Contains(data[TOKEN_WHITELIST].allowed_mints, params.mint)
        THEN "TokenNotWhitelisted"
        ELSE "ok"

NewPlan(creator, params) ==
    [kind |-> "SubscriptionPlanAccount",
     creator |-> creator,
     mint |-> params.mint,
     price_per_period |-> params.price_per_period,
     period_seconds |-> params.period_seconds,
     plan_seed |-> params.plan_seed,
     offchain_hash |-> params.offchain_hash,
     active |-> TRUE]

configure_subscription(creator, params) ==
    LET err  == configure_subscription_err(creator, params)
        plan == PlanKey(creator, params.plan_seed)
    IN  /\ last' = Result("configure_subscription", creator, err)
        /\ IF err = "ok"
           THEN /\ lamports' = InitFund(lamports, creator, plan)
                /\ data' = (plan :> NewPlan(creator, params)) @@ data
                /\ UNCHANGED hist
           ELSE Failed
        /\ UNCHANGED <<now, scope, tokens>>

\* init_if_needed: a zeroed instance when the address holds none yet
ZeroInstance ==
    [kind |-> "SubscriptionInstanceAccount",
     subscriber |-> NOBODY,
     plan |-> NOBODY,
     instance_seed |-> NONE,
     last_payment_at |-> 0]

InstanceOf(instance) ==
    IF instance \in DOMAIN data THEN data[instance] ELSE ZeroInstance

\* remaining_accounts: [subscriber ATA, creator ATA, treasury ATA, token_program]
handle_spl_subscription(t, l, subscriber, plan, remaining_accounts, fee_amount, creator_amount) ==
    IF ~(Len(remaining_accounts) >= 4) THEN Out("MissingTokenAccounts", l, t)
    ELSE LET mint == data[plan].mint
             subscriber_token_ai == remaining_accounts[1]
             creator_token_ai == remaining_accounts[2]
             treasury_token_ai == remaining_accounts[3]
             valid == FirstErr(<<
                 validate_token_account(t, subscriber_token_ai, mint, subscriber),
                 validate_token_account(t, creator_token_ai, mint,
                                        data[plan].creator),
                 validate_token_account(t, treasury_token_ai, mint,
                                        Config.treasury)>>)
             e1 == IF fee_amount > 0
                   THEN token_transfer_err(t, subscriber_token_ai,
                                           treasury_token_ai, subscriber, fee_amount)
                   ELSE "ok"
             t1 == IF fee_amount > 0
                   THEN token_transfer(t, subscriber_token_ai, treasury_token_ai,
                                       fee_amount)
                   ELSE t
             e2 == IF creator_amount > 0
                   THEN token_transfer_err(t1, subscriber_token_ai,
                                           creator_token_ai, subscriber,
                                           creator_amount)
                   ELSE "ok"
             t2 == IF creator_amount > 0
                   THEN token_transfer(t1, subscriber_token_ai, creator_token_ai,
                                       creator_amount)
                   ELSE t1
         IN  IF valid # "ok" THEN Out(valid, l, t)
             ELSE IF e1 # "ok" THEN Out(e1, l, t)
             ELSE IF e2 # "ok" THEN Out(e2, l, t1)
             ELSE Out("ok", l, t2)

\* last_payment_at.checked_add(period_seconds); the timestamps of NowInputs and
\* the periods of PeriodInputs stay far below i64::MAX
checked_add(a, b) == [some |-> TRUE, val |-> a + b]

\* the two native legs: subscriber -> treasury, then subscriber -> creator;
\* a leg the subscriber cannot pay fails and leaves the earlier leg written
\* the two native legs with their destinations exchanged
native_subscription_legs_swapped(l, subscriber, treasury, creator_destination, fee_amount, creator_amount) ==
    LET l1 == IF fee_amount > 0
              THEN Transfer(l, subscriber, creator_destination, fee_amount) ELSE l
        l2 == IF creator_amount > 0
              THEN Transfer(l1, subscriber, treasury, creator_amount)
              ELSE l1
    IN  IF fee_amount > 0 /\ l[subscriber] < fee_amount
        THEN [err |-> "InsufficientFunds", l |-> l]
        ELSE IF creator_amount > 0 /\ l1[subscriber] < creator_amount
        THEN [err |-> "InsufficientFunds", l |-> l1]
        ELSE [err |-> "ok", l |-> l2]

native_subscription_legs(l, subscriber, treasury, creator_destination, fee_amount, creator_amount) ==
    LET l1 == IF fee_amount > 0
              THEN Transfer(l, subscriber, treasury, fee_amount) ELSE l
        l2 == IF creator_amount > 0
              THEN Transfer(l1, subscriber, creator_destination, creator_amount)
              ELSE l1
    IN  IF fee_amount > 0 /\ l[subscriber] < fee_amount
        THEN [err |-> "InsufficientFunds", l |-> l]
        ELSE IF creator_amount > 0 /\ l1[subscriber] < creator_amount
        THEN [err |-> "InsufficientFunds", l |-> l1]
        ELSE [err |-> "ok", l |-> l2]

\* the handler body; funded is the ledger once init_if_needed has run
process_subscription_payment_handler(subscriber, treasury, plan, creator_destination, instance, funded, params, remaining_accounts) ==
    LET p   == data[plan]
        fee == Fee(p.price_per_period, Config.fee_bps)
        fee_amount == from_le_bytes(fee.val)
        creator_amount == checked_sub(p.price_per_period, fee_amount)
        next_due == checked_add(InstanceOf(instance).last_payment_at,
                                p.period_seconds)
        legs == native_subscription_legs(funded, subscriber, treasury,
                    creator_destination, fee_amount, creator_amount.val)
    IN  IF ~p.active THEN Out("SubscriptionInactive", funded, tokens)
        ELSE IF InstanceOf(instance).last_payment_at # 0 /\ ~next_due.some
        THEN Out("MathOverflow", funded, tokens)
        ELSE IF InstanceOf(instance).last_payment_at # 0
                /\ ~(params.now_ts >= next_due.val)
        THEN Out("SubscriptionPeriodNotReached", funded, tokens)
        ELSE IF ~fee.ok THEN Out(fee.err, funded, tokens)
        ELSE IF ~creator_amount.some THEN Out("MathOverflow", funded, tokens)
        ELSE IF is_native_mint(p.mint) THEN Out(legs.err, legs.l, tokens)
        ELSE handle_spl_subscription(tokens, funded, subscriber, plan,
                 remaining_accounts, fee_amount, creator_amount.val)

\* #[derive(Accounts)] ProcessSubscriptionPayment: what Anchor checks first
ProcessSubscriptionPaymentAccounts(subscriber, treasury, plan, creator_destination, params) ==
    LET instance == InstanceKey(subscriber, params.instance_seed)
    IN  IF ConfigAndVault(treasury) # "ok" THEN ConfigAndVault(treasury)
        ELSE IF Deser(plan, "SubscriptionPlanAccount") # "ok"
        THEN Deser(plan, "SubscriptionPlanAccount")
        ELSE IF instance \notin DOMAIN data
                /\ InitCheck(lamports, subscriber, instance) # "ok"
        THEN InitCheck(lamports, subscriber, instance)
        ELSE IF Config.treasury # treasury THEN "ConstraintHasOne"
        ELSE IF creator_destination # data[plan].creator THEN "ConstraintAddress"
        ELSE "ok"

\* the whole instruction: its result and what it had written when it returned
process_subscription_payment_run(subscriber, treasury, plan, creator_destination, params, remaining_accounts) ==
    LET instance == InstanceKey(subscriber, params.instance_seed)
        accounts == ProcessSubscriptionPaymentAccounts(subscriber, treasury,
                        plan, creator_destination, params)
    IN  IF accounts # "ok" THEN Out(accounts, lamports, tokens)
        ELSE process_subscription_payment_handler(subscriber, treasury, plan,
                 creator_destination, instance,
                 IF instance \in DOMAIN data THEN lamports
                 ELSE InitFund(lamports, subscriber, instance),
                 params, remaining_accounts)

process_subscription_payment_err(subscriber, treasury, plan, creator_destination, params, remaining_accounts) ==
    process_subscription_payment_run(subscriber, treasury, plan,
        creator_destination, params, remaining_accounts).err

process_subscription_payment(subscriber, treasury, plan, creator_destination, params, remaining_accounts) ==
    LET run      == process_subscription_payment_run(subscriber, treasury, plan,
                        creator_destination, params, remaining_accounts)
        instance == InstanceKey(subscriber, params.instance_seed)
    IN  /\ last' = Result("process_subscription_payment", subscriber, run.err)
        /\ lamports' = Rollback(run.err, run.l, lamports)
        /\ tokens' = Rollback(run.err, run.t, tokens)
        /\ IF run.err = "ok"
           THEN /\ data' = (instance :>
                              [InstanceOf(instance) EXCEPT
                                 !.subscriber = subscriber,
                                 !.plan = plan,
                                 !.instance_seed = params.instance_seed,
                                 !.last_payment_at = params.now_ts])
                           @@ data
                /\ UNCHANGED hist
           ELSE UNCHANGED <<data, hist>>
        /\ UNCHANGED <<now, scope>>

(***************************************************************************)
(* The environment: the clock advances, wallets fund the vaults with       *)
(* plain system transfers.                                                 *)
(***************************************************************************)
tick ==
    /\ now < MaxTime
    /\ now' = now + 1
    /\ last' = Result("tick", NOBODY, "ok")
    /\ UNCHANGED <<lamports, data, hist, scope, tokens>>

deposit(from, vault) ==
    /\ vault \in DOMAIN data
    /\ lamports[from] >= DepositAmount
    /\ lamports' = Transfer(lamports, from, vault, DepositAmount)
    /\ last' = Result("deposit", from, "ok")
    /\ UNCHANGED <<data, now, hist, scope, tokens>>

VARIABLES feeArgs, feeRes

feeVars == <<feeArgs, feeRes>>

U64Max == [i \in 1..8 |-> 255]

\* the u64 amounts tried: small ones, the ledger's prices, and the top of the range
FeeAmounts ==
    {to_le_bytes(n, 8) : n \in {0, 1, 39, 40, 1000, 9999, 10000, 10001}}
    \cup {U64Max,
          <<254, 255, 255, 255, 255, 255, 255, 255>>,
          <<0, 0, 0, 0, 1, 0, 0, 0>>,
          <<255, 255, 255, 255, 0, 0, 0, 0>>,
          <<0, 0, 0, 0, 0, 0, 0, 128>>,
          <<21, 205, 91, 7, 0, 0, 0, 1>>}

\* the u16 rates tried, 65535 being the largest a u16 holds
FeeRates == {0, 1, 250, 9999, 10000, 10001, 65535}

NoFeeResult == [ok |-> FALSE, val |-> <<>>, err |-> "not called"]

vars == <<lamports, data, now, last, hist, scope, tokens, feeArgs, feeRes>>

\* A run exercises the admin instructions and one instruction family; what
\* each wallet holds at the start is enough for that family's instructions.
MarketFunds ==
    (AUTHORITY :> 6 * RentExemptMinimum)
    @@ (U1 :> 2 * RentExemptMinimum)
    @@ (U2 :> 2 * RentExemptMinimum + 1000)

ContestFunds ==
    (AUTHORITY :> 4 * RentExemptMinimum + DepositAmount)
    @@ (U1 :> 3 * RentExemptMinimum)
    @@ (U2 :> RentExemptMinimum)

SubscriptionFunds ==
    (AUTHORITY :> 4 * RentExemptMinimum)
    @@ (U1 :> RentExemptMinimum)
    @@ (U2 :> RentExemptMinimum + 3030)

\* two contests of U1, each funded by one deposit of the authority
WinnerFunds ==
    (AUTHORITY :> 4 * RentExemptMinimum + 2 * DepositAmount)
    @@ (U1 :> 3 * RentExemptMinimum)
    @@ (U2 :> RentExemptMinimum)

\* the authority funds both vaults, U1 creates a contest
VaultFunds ==
    (AUTHORITY :> 4 * RentExemptMinimum + 2 * DepositAmount)
    @@ (U1 :> 2 * RentExemptMinimum)
    @@ (U2 :> 0)

\* U1 configures two plans, U2 pays twice
PlansFunds ==
    (AUTHORITY :> 4 * RentExemptMinimum)
    @@ (U1 :> 2 * RentExemptMinimum)
    @@ (U2 :> RentExemptMinimum + 2000)

Funds ==
    [market |-> MarketFunds, contest |-> ContestFunds,
     subscription |-> SubscriptionFunds, winner |-> WinnerFunds,
     token |-> MarketFunds, vault |-> VaultFunds,
     plans |-> PlansFunds]

Init ==
    /\ InitLedger(Funds)
    /\ feeArgs = [amount |-> to_le_bytes(0, 8), fee_bps |-> 0]
    /\ feeRes = NoFeeResult

InitMarket == Init /\ scope = "market"

\* the listings and orders again, with the history of rates
InitRate ==
    /\ InitLedger([rate |-> MarketFunds])
    /\ feeArgs = [amount |-> to_le_bytes(0, 8), fee_bps |-> 0]
    /\ feeRes = NoFeeResult

InitContest == Init /\ scope = "contest"

InitWinner == Init /\ scope = "winner"

InitSubscription == Init /\ scope = "subscription"

InitToken == Init /\ scope = "token"

InitPlans == Init /\ scope = "plans"

\* what the subscription instructions are called with: one plan in either
\* currency in the "subscription" scope, two native plans of periods 1 and 2
\* and the configured accounts in "plans"
SubscriptionScopes == {"subscription", "plans"}
PlanSeedsInScope ==
    IF scope = "plans" THEN PlanSeeds \cup RivalPlanSeeds ELSE PlanSeeds
PlansInScope == IF scope = "plans" THEN PlanKeys \cup RivalPlanKeys ELSE PlanKeys
PeriodsInScope == IF scope = "plans" THEN {1, 2} ELSE PeriodInputs
PlanMintsInScope == IF scope = "plans" THEN {NATIVE_MINT} ELSE Mints
PlanTreasuriesInScope == IF scope = "plans" THEN {TREASURY_VAULT} ELSE VaultKeys
PlanDestinationsInScope == IF scope = "plans" THEN PlanCreators ELSE Users

InitVault == Init /\ scope = "vault"

\* the side tables of token accounts a call passes as remaining_accounts:
\* none, the right one, one naming the order's second token account, one that
\* is an entry short, one with somebody else's token account in a slot, and one
\* with a token account of the other currency in a slot
PurchaseTables ==
    {<<>>,
     <<USDC_MINT, BUYER_ATA, ORDER_ATA, SELLER_ATA, TREASURY_ATA, TOKEN_PROGRAM>>,
     <<USDC_MINT, BUYER_ATA, ORDER_ATA_SHORT, SELLER_ATA, TREASURY_ATA,
       TOKEN_PROGRAM>>,
     <<USDC_MINT, BUYER_ATA, ORDER_ATA, SELLER_ATA, TREASURY_ATA>>,
     <<USDC_MINT, BUYER_ATA, SELLER_ATA, SELLER_ATA, TREASURY_ATA, TOKEN_PROGRAM>>,
     <<USDC_MINT, BUYER_ATA, ORDER_ATA, SELLER_ATA_EURC, TREASURY_ATA,
       TOKEN_PROGRAM>>}
FinalizeTables ==
    {<<>>,
     <<USDC_MINT, ORDER_ATA, SELLER_ATA, TREASURY_ATA, TOKEN_PROGRAM>>,
     <<USDC_MINT, ORDER_ATA_SHORT, SELLER_ATA, TREASURY_ATA, TOKEN_PROGRAM>>,
     <<USDC_MINT, ORDER_ATA, SELLER_ATA, TREASURY_ATA>>,
     <<USDC_MINT, ORDER_ATA, BUYER_ATA, TREASURY_ATA, TOKEN_PROGRAM>>,
     <<USDC_MINT, ORDER_ATA, SELLER_ATA_EURC, TREASURY_ATA, TOKEN_PROGRAM>>}
SubscriptionTables ==
    {<<>>,
     <<BUYER_ATA, SELLER_ATA, TREASURY_ATA, TOKEN_PROGRAM>>,
     <<BUYER_ATA, SELLER_ATA, TREASURY_ATA>>,
     <<BUYER_ATA, SELLER_ATA, BUYER_ATA, TOKEN_PROGRAM>>,
     <<BUYER_ATA, SELLER_ATA_EURC, TREASURY_ATA, TOKEN_PROGRAM>>}
SubscriptionTablesInScope == IF scope = "plans" THEN {<<>>} ELSE SubscriptionTables
MarketScopes == {"market", "token", "rate"}
WhitelistScopes == {"token", "subscription"}
PurchaseTablesInScope == IF scope = "token" THEN PurchaseTables ELSE {<<>>}
FinalizeTablesInScope == IF scope = "token" THEN FinalizeTables ELSE {<<>>}
\* nothing, one deposit, and more than two deposits leave above the floor
WithdrawInputs == {0, DepositAmount, 2 * DepositAmount + 1}
\* in the "token" scope the buyer is the wallet that holds tokens and the
\* treasury and the payout wallet are the configured ones
BuyersInScope == IF scope = "token" THEN {U2} ELSE Users
TreasuriesInScope == IF scope = "token" THEN {TREASURY_VAULT} ELSE VaultKeys
DestinationsInScope == IF scope = "token" THEN {U1} ELSE {U1, U2}
OrdersInScope ==
    IF scope = "token" THEN {OrderKey(l, U2) : l \in ListingKeys} ELSE OrderKeys

\* what the contest instructions are called with: one contest and every
\* signer in the "contest" scope, two contests and the real signer in "winner"
ContestScopes == {"contest", "winner"}
CreateScopes == ContestScopes \cup {"vault"}
SeedsInScope == IF scope = "winner" THEN ContestSeeds \cup RivalSeeds ELSE ContestSeeds
ContestsInScope == IF scope = "winner" THEN ContestKeys \cup RivalKeys ELSE ContestKeys
EntrySeedsInScope == IF scope = "winner" THEN {"e1"} ELSE EntrySeeds
EntriesInScope == {EntryKey(c, e) : c \in ContestsInScope, e \in EntrySeedsInScope}
DeadlinesInScope == IF scope \in {"winner", "vault"} THEN {1} ELSE DeadlineInputs
PrizesInScope ==
    IF scope = "winner" THEN {5000}
    ELSE IF scope = "vault" THEN {5000, RentExemptMinimum + DepositAmount}
    ELSE PrizeInputs
ResolveSigners == IF scope = "winner" THEN {AUTHORITY} ELSE Users
ResolveVaults == IF scope = "winner" THEN {REWARD_VAULT} ELSE VaultKeys

InitFee ==
    /\ InitLedger([market |-> MarketFunds])
    /\ feeArgs \in [amount : FeeAmounts, fee_bps : FeeRates]
    /\ feeRes = NoFeeResult

(***************************************************************************)
(* The instructions of lib.rs, each with its inputs drawn from the sets    *)
(* above.                                                                  *)
(***************************************************************************)
InitializeConfig ==
    /\ \E fee_bps \in FeeInputs : initialize_config(AUTHORITY, fee_bps)
    /\ UNCHANGED feeVars

SetAdminConfig ==
    /\ \E authority \in Users, input \in AdminInputs :
          set_admin_config(authority, input.fee_bps, input.treasury,
                           input.reward_vault)
    /\ UNCHANGED feeVars

UpdateWhitelist ==
    /\ scope \in WhitelistScopes
    /\ \E authority \in Users, params \in [mint : {USDC_MINT}, add : BOOLEAN] :
          update_whitelist(authority, params)
    /\ UNCHANGED feeVars

WithdrawTreasuryNative ==
    /\ scope = "vault"
    /\ \E authority \in Users, treasury_vault \in VaultKeys,
          destination \in {AUTHORITY}, params \in [amount : WithdrawInputs] :
          withdraw_treasury_native(authority, treasury_vault, destination, params)
    /\ UNCHANGED feeVars

WithdrawRewardNative ==
    /\ scope = "vault"
    /\ \E authority \in Users, reward_vault \in VaultKeys,
          destination \in {AUTHORITY}, params \in [amount : WithdrawInputs] :
          withdraw_reward_native(authority, reward_vault, destination, params)
    /\ UNCHANGED feeVars

CreateListing ==
    /\ scope \in MarketScopes
    /\ \E authority \in Users, seller \in Sellers, treasury \in TreasuriesInScope,
          params \in [listing_seed : ListingSeeds, offchain_hash : Hashes,
                      price_lamports : Prices, mint : Mints,
                      seller_signature : Signatures] :
          create_listing(authority, seller, treasury, params)
    /\ UNCHANGED feeVars

CancelListing ==
    /\ scope \in MarketScopes
    /\ \E seller \in Users, listing \in ListingKeys, treasury \in VaultKeys :
          cancel_listing(seller, listing, treasury)
    /\ UNCHANGED feeVars

PurchaseListing ==
    /\ scope \in MarketScopes
    /\ \E buyer \in BuyersInScope, listing \in ListingKeys,
          treasury \in TreasuriesInScope,
          seller_destination \in DestinationsInScope,
          params \in [expected_price : Prices],
          remaining_accounts \in PurchaseTablesInScope :
          purchase_listing(buyer, listing, treasury, seller_destination, params,
                           remaining_accounts)
    /\ UNCHANGED feeVars

FinalizeOrder ==
    /\ scope \in MarketScopes
    /\ \E authority \in Users, treasury \in TreasuriesInScope,
          order \in OrdersInScope, buyer \in BuyersInScope,
          seller_destination \in DestinationsInScope,
          remaining_accounts \in FinalizeTablesInScope :
          finalize_order(authority, treasury, order, buyer, seller_destination,
                         remaining_accounts)
    /\ UNCHANGED feeVars

ConfigureSubscription ==
    /\ scope \in SubscriptionScopes
    /\ \E creator \in PlanCreators,
          params \in [plan_seed : PlanSeedsInScope, offchain_hash : Hashes,
                      price_per_period : {1000}, period_seconds : PeriodsInScope,
                      mint : PlanMintsInScope] :
          configure_subscription(creator, params)
    /\ UNCHANGED feeVars

ProcessSubscriptionPayment ==
    /\ scope \in SubscriptionScopes
    /\ \E subscriber \in Subscribers, treasury \in PlanTreasuriesInScope,
          plan \in PlansInScope, creator_destination \in PlanDestinationsInScope,
          params \in [instance_seed : InstanceSeeds, now_ts : NowInputs],
          remaining_accounts \in SubscriptionTablesInScope :
          process_subscription_payment(subscriber, treasury, plan,
                                       creator_destination, params,
                                       remaining_accounts)
    /\ UNCHANGED feeVars

CreateContest ==
    /\ scope \in CreateScopes
    /\ \E creator \in Creators, reward_vault \in ResolveVaults,
          params \in [contest_seed : SeedsInScope, offchain_hash : Hashes,
                      deadline : DeadlinesInScope, prize_lamports : PrizesInScope] :
          create_contest(creator, reward_vault, params)
    /\ UNCHANGED feeVars

SubmitContestEntry ==
    /\ scope \in ContestScopes
    /\ \E contestant \in Contestants, contest \in ContestsInScope,
          params \in [contest_seed : SeedsInScope, entry_seed : EntrySeedsInScope,
                      offchain_hash : Hashes] :
          submit_contest_entry(contestant, contest, params)
    /\ UNCHANGED feeVars

ResolveContest ==
    /\ scope \in ContestScopes
    /\ \E authority \in ResolveSigners, reward_vault \in ResolveVaults,
          contest \in ContestsInScope, entry \in EntriesInScope,
          reward_destination \in Contestants,
          params \in [contest_seed : SeedsInScope, entry_seed : EntrySeedsInScope,
                      winner : Contestants, score : ScoreInputs] :
          resolve_contest(authority, reward_vault, contest, entry,
                          reward_destination, params)
    /\ UNCHANGED feeVars

Tick == scope \in ContestScopes /\ tick /\ UNCHANGED feeVars

Deposit ==
    /\ scope \in CreateScopes
    /\ \E from \in Users,
          vault \in IF scope = "vault" THEN VaultKeys ELSE {REWARD_VAULT} :
          deposit(from, vault)
    /\ UNCHANGED feeVars

ComputeFeeCall ==
    /\ feeRes = NoFeeResult
    /\ feeRes' = compute_fee(feeArgs.amount, feeArgs.fee_bps)
    /\ UNCHANGED <<feeArgs, ledgerVars>>

Next ==
    \/ InitializeConfig
    \/ SetAdminConfig
    \/ UpdateWhitelist
    \/ WithdrawTreasuryNative
    \/ WithdrawRewardNative
    \/ CreateListing
    \/ CancelListing
    \/ PurchaseListing
    \/ FinalizeOrder
    \/ ConfigureSubscription
    \/ ProcessSubscriptionPayment
    \/ CreateContest
    \/ SubmitContestEntry
    \/ ResolveContest
    \/ Tick
    \/ Deposit

Spec == Init /\ [][Next]_vars

NextMarket ==
    \/ InitializeConfig
    \/ SetAdminConfig
    \/ CreateListing
    \/ CancelListing
    \/ PurchaseListing
    \/ FinalizeOrder

SpecMarket == InitMarket /\ [][NextMarket]_vars

SpecRate == InitRate /\ [][NextMarket]_vars

NextContest ==
    \/ InitializeConfig
    \/ SetAdminConfig
    \/ CreateContest
    \/ SubmitContestEntry
    \/ ResolveContest
    \/ Tick
    \/ Deposit

SpecContest == InitContest /\ [][NextContest]_vars

SpecWinner == InitWinner /\ [][NextContest]_vars

NextToken ==
    \/ InitializeConfig
    \/ SetAdminConfig
    \/ UpdateWhitelist
    \/ CreateListing
    \/ CancelListing
    \/ PurchaseListing
    \/ FinalizeOrder

SpecToken == InitToken /\ [][NextToken]_vars

NextVault ==
    \/ InitializeConfig
    \/ SetAdminConfig
    \/ WithdrawTreasuryNative
    \/ WithdrawRewardNative
    \/ CreateContest
    \/ Deposit

SpecVault == InitVault /\ [][NextVault]_vars

NextPlans ==
    \/ InitializeConfig
    \/ SetAdminConfig
    \/ ConfigureSubscription
    \/ ProcessSubscriptionPayment

SpecPlans == InitPlans /\ [][NextPlans]_vars

NextSubscription ==
    \/ InitializeConfig
    \/ SetAdminConfig
    \/ UpdateWhitelist
    \/ ConfigureSubscription
    \/ ProcessSubscriptionPayment

SpecSubscription == InitSubscription /\ [][NextSubscription]_vars

NextFee == ComputeFeeCall

SpecFee == InitFee /\ [][NextFee]_vars

(***************************************************************************)
(* Reference arithmetic on naturals of any size (little-endian base 256),  *)
(* used to state what a fee should be.                                     *)
(***************************************************************************)
\* a * k + c, three digits longer than a
RECURSIVE NatScaleAdd(_, _, _)
NatScaleAdd(a, k, c) ==
    IF a = <<>> THEN to_le_bytes(c, 3)
    ELSE <<(Head(a) * k + c) % 256>>
         \o NatScaleAdd(Tail(a), k, (Head(a) * k + c) \div 256)

\* a <= b for two naturals of the same number of digits
RECURSIVE NatLeq(_, _)
NatLeq(a, b) ==
    IF a = <<>> THEN TRUE
    ELSE LET n == Len(a)
         IN  IF a[n] < b[n] THEN TRUE
             ELSE IF a[n] > b[n] THEN FALSE
             ELSE NatLeq(SubSeq(a, 1, n - 1), SubSeq(b, 1, n - 1))

\* q = floor(amount * bps / 10000):  q*10000 <= amount*bps <= q*10000 + 9999
IsFloor(amount, bps, q) ==
    /\ NatLeq(NatScaleAdd(q, 10000, 0), NatScaleAdd(amount, bps, 0))
    /\ NatLeq(NatScaleAdd(amount, bps, 0), NatScaleAdd(q, 10000, 9999))

\* amounts whose product with any u16 rate fits the checker's integers
FitsNative(amount) == \A i \in 3..8 : amount[i] = 0

(***************************************************************************)
(* C7  Fee correctness: compute_fee(amount, bps) is floor(amount*bps/10000)*)
(* for every u64 amount and every bps in 0..10000; a rate of 0 gives 0 and *)
(* a rate of 10000 gives the amount; and no u64 amount with any u16 rate   *)
(* makes it return MathOverflow.                                           *)
(***************************************************************************)
FeeCorrectness ==
    feeRes # NoFeeResult =>
        /\ feeRes.ok
        /\ Len(feeRes.val) = 8
        /\ \A i \in 1..8 : feeRes.val[i] \in 0..255
        /\ feeArgs.fee_bps <= 10000 =>
               IsFloor(feeArgs.amount, feeArgs.fee_bps, feeRes.val)
        /\ feeArgs.fee_bps = 0 => feeRes.val = to_le_bytes(0, 8)
        /\ feeArgs.fee_bps = 10000 => feeRes.val = feeArgs.amount
        /\ (FitsNative(feeArgs.amount) /\ feeArgs.fee_bps <= 10000) =>
               from_le_bytes(feeRes.val) =
                   (from_le_bytes(feeArgs.amount) * feeArgs.fee_bps) \div 10000

\* the largest amount at the largest valid rate has been computed
FeeCorrectnessWitness ==
    /\ feeArgs = [amount |-> U64Max, fee_bps |-> 10000]
    /\ feeRes = Ok(U64Max)

(***************************************************************************)
(* C6  Price integrity: for every Active listing and every expected_price  *)
(* different from the listing's stored price, purchase_listing fails,      *)
(* creates no order, moves no funds and leaves the listing Active; the     *)
(* error is PriceMismatch whenever the accounts of the call pass Anchor's  *)
(* validation (which runs before the handler compares the prices).         *)
(***************************************************************************)
PriceIntegrity ==
    [][last'.op = "purchase_listing" =>
        \A buyer \in Users, listing \in ListingKeys, treasury \in VaultKeys,
           seller_destination \in {U1, U2}, params \in [expected_price : Prices],
           remaining_accounts \in PurchaseTables :
           (/\ listing \in DOMAIN data
            /\ data[listing].active
            /\ params.expected_price # data[listing].price_lamports
            /\ purchase_listing(buyer, listing, treasury, seller_destination,
                                params, remaining_accounts))
           => /\ last'.err # "ok"
              /\ lamports' = lamports
              /\ data' = data
              /\ data'[listing].active
              /\ OrderKey(listing, buyer) \notin DOMAIN data'
              /\ PurchaseListingAccounts(buyer, listing, treasury,
                                         seller_destination) = "ok"
                  => last'.err = "PriceMismatch"]_vars

\* a purchase at the wrong price has just been refused, the listing is on offer
PriceIntegrityWitness ==
    /\ last = Result("purchase_listing", U2, "PriceMismatch")
    /\ \E listing \in ListingKeys \cap DOMAIN data :
          /\ data[listing].active
          /\ data[listing].price_lamports = 1000
          /\ \A buyer \in Users : OrderKey(listing, buyer) \notin DOMAIN data

(***************************************************************************)
(* C4  One listing yields at most one order: whatever the buyers do, at    *)
(* most one purchase_listing ever succeeds for a listing, so at most one   *)
(* order record and one escrowed payment exist for it.                     *)
(***************************************************************************)
OneOrderPerListing ==
    \A listing \in ListingKeys :
        /\ hist.purchases[listing] <= 1
        /\ Cardinality({b \in Users : OrderKey(listing, b) \in DOMAIN data}) <= 1
        /\ Cardinality({b \in Users : lamports[OrderKey(listing, b)] > 0}) <= 1

\* the listing was bought and a later buyer has just been turned away
OneOrderPerListingWitness ==
    /\ last.op = "purchase_listing" /\ last.err = "ListingNotActive"
    /\ \E listing \in ListingKeys :
          /\ hist.purchases[listing] = 1
          /\ \E b \in Users : OrderKey(listing, b) \in DOMAIN data

(***************************************************************************)
(* C8  Native settlement split: a successful finalize_order on a native    *)
(* order takes amount_paid out of the order escrow, gives the treasury     *)
(* fee = floor(amount_paid * fee_bps / 10000) and the seller               *)
(* amount_paid - fee, and destroys the order record, whose remaining       *)
(* deposit goes to the buyer (1000 at 250 bps: 25 and 975).                *)
(***************************************************************************)
NativeSettlementSplit ==
    [][(last'.op = "finalize_order" /\ last'.err = "ok") =>
        \E order \in OrderKeys \cap DOMAIN data :
            LET o      == data[order]
                fee    == (o.amount_paid * Config.fee_bps) \div 10000
                escrow == lamports[order]
                delta(a) ==
                    (IF a = order THEN 0 - escrow ELSE 0)
                    + (IF a = Config.treasury THEN fee ELSE 0)
                    + (IF a = o.seller THEN o.amount_paid - fee ELSE 0)
                    + (IF a = o.buyer THEN escrow - o.amount_paid ELSE 0)
            IN  /\ is_native_mint(o.mint)
                /\ data' = Without(data, order)
                /\ \A a \in Addresses : lamports'[a] = lamports[a] + delta(a)
                /\ (o.amount_paid = 1000 /\ Config.fee_bps = 250
                      /\ o.buyer # o.seller)
                   => /\ lamports'[Config.treasury] = lamports[Config.treasury] + 25
                      /\ lamports'[o.seller] = lamports[o.seller] + 975]_vars

\* the 1000-lamport order of U2 was settled at 250 bps: 25 and 975
NativeSettlementSplitWitness ==
    /\ last = Result("finalize_order", AUTHORITY, "ok")
    /\ Config.fee_bps = 250
    /\ lamports[TREASURY_VAULT] = RentExemptMinimum + 25
    /\ lamports[U1] = 2 * RentExemptMinimum + 975
    /\ lamports[U2] = 2 * RentExemptMinimum
    /\ OrderKeys \cap DOMAIN data = {}

(***************************************************************************)
(* C10  Deadline-gated resolution: while now < deadline every              *)
(* resolve_contest on the contest is refused, with                         *)
(* ContestDeadlineNotReached when the accounts of the call are valid; a    *)
(* refused call changes nothing and no step takes lamports out of a        *)
(* contest escrow before its deadline; with now >= deadline, valid         *)
(* accounts and the right winner it succeeds, pays the winner the whole    *)
(* prize and destroys the contest record.                                  *)
(***************************************************************************)
ResolveGate ==
    \A authority \in Users, reward_vault \in VaultKeys,
       contest \in ContestKeys \cap DOMAIN data, entry \in EntryKeys,
       reward_destination \in Contestants,
       params \in [contest_seed : ContestSeeds, entry_seed : EntrySeeds,
                   winner : Contestants, score : ScoreInputs] :
       LET err   == resolve_contest_err(authority, reward_vault, contest, entry,
                                        reward_destination, params)
           valid == ResolveContestAccounts(authority, reward_vault, contest,
                                           entry, params) = "ok"
       IN  /\ now < data[contest].deadline
              => /\ err # "ok"
                 /\ valid => err = "ContestDeadlineNotReached"
           /\ (/\ now >= data[contest].deadline
               /\ valid
               /\ params.winner = reward_destination
               /\ params.winner = data[entry].contestant)
              => err = "ok"

ResolveStep ==
    /\ \A c \in ContestKeys \cap DOMAIN data :
          now < data[c].deadline =>
              (c \in DOMAIN data' /\ lamports'[c] >= lamports[c])
    /\ (last'.op = "resolve_contest" /\ last'.err # "ok")
       => (lamports' = lamports /\ data' = data)
    /\ (last'.op = "resolve_contest" /\ last'.err = "ok")
       => \E c \in ContestKeys \cap DOMAIN data, w \in Contestants :
             /\ now >= data[c].deadline
             /\ data[c].prize_lamports > 0
             /\ lamports'[w] = lamports[w] + data[c].prize_lamports
             /\ c \notin DOMAIN data'
             /\ lamports'[c] = 0
             /\ lamports'[Config.reward_vault]
                   = lamports[Config.reward_vault]
                     + (lamports[c] - data[c].prize_lamports)

DeadlineGatedResolution == [] ResolveGate /\ [][ResolveStep]_vars

\* the authority has just been refused a resolution before the deadline
DeadlineGatedResolutionWitness ==
    /\ last = Result("resolve_contest", AUTHORITY, "ContestDeadlineNotReached")
    /\ \E c \in ContestKeys \cap DOMAIN data :
          /\ now < data[c].deadline
          /\ lamports[c] = RentExemptMinimum + data[c].prize_lamports
          /\ \E e \in EntryKeys \cap DOMAIN data : data[e].contest = c

(***************************************************************************)
(* C1  Conservation: every successful create_contest, purchase_listing,    *)
(* finalize_order, resolve_contest and process_subscription_payment on     *)
(* the native path leaves the sum of the balances of all accounts equal to *)
(* the sum before it: no instruction credits more than it debits.          *)
(***************************************************************************)
RECURSIVE SumOver(_, _)
SumOver(l, S) ==
    IF S = {} THEN 0
    ELSE LET a == CHOOSE x \in S : TRUE
         IN  l[a] + SumOver(l, S \ {a})

SettlementOps ==
    {"create_contest", "purchase_listing", "finalize_order", "resolve_contest",
     "process_subscription_payment"}

Conservation ==
    [][(last'.op \in SettlementOps /\ last'.err = "ok")
        => /\ SumOver(lamports', Addresses) = SumOver(lamports, Addresses)
           /\ \A a \in Addresses : lamports'[a] >= 0]_vars

\* a 1000-lamport subscription period was paid at 250 bps: 25 and 975
ConservationWitness ==
    /\ last = Result("process_subscription_payment", U2, "ok")
    /\ lamports[TREASURY_VAULT] = RentExemptMinimum + 25
    /\ lamports[U1] = 975

(***************************************************************************)
(* C9  Settlement is authority-only: a finalize_order or resolve_contest   *)
(* succeeds only when its signer is the authority stored in                *)
(* MarketplaceConfig; signed by anyone else it fails, and a failed call    *)
(* releases nothing: balances and records stay as they were.               *)
(***************************************************************************)
AuthorityOnlySettlement ==
    [][last'.op \in {"finalize_order", "resolve_contest"}
        => /\ last'.err = "ok"
              => (CONFIG \in DOMAIN data /\ last'.signer = Config.authority)
           /\ last'.err # "ok" => (lamports' = lamports /\ data' = data)]_vars

\* the buyer has just tried to settle an order that the authority could settle
AuthorityOnlySettlementWitness ==
    /\ last = Result("finalize_order", U2, "ConstraintHasOne")
    /\ \E order \in OrderKeys \cap DOMAIN data :
          /\ lamports[order] = RentExemptMinimum + data[order].amount_paid
          /\ data[order].amount_paid > 0
          /\ finalize_order_err(Config.authority, Config.treasury, order,
                                data[order].buyer, data[order].seller, <<>>) = "ok"

(***************************************************************************)
(* C2  Single settlement of orders: for every order finalize_order         *)
(* succeeds at most once, and every finalize_order on that order after a   *)
(* successful one fails with OrderAlreadySettled.                          *)
(***************************************************************************)
SingleSettlementOfOrders ==
    [][last'.op = "finalize_order" =>
        /\ \A order \in OrderKeys : hist'.finalizes[order] <= 1
        /\ \A authority \in Users, treasury \in VaultKeys, order \in OrderKeys,
              buyer \in Users, seller_destination \in {U1, U2},
              remaining_accounts \in FinalizeTables :
              (/\ hist.finalizes[order] >= 1
               /\ finalize_order(authority, treasury, order, buyer,
                                 seller_destination, remaining_accounts))
              => last'.err = "OrderAlreadySettled"]_vars

(***************************************************************************)
(* C3  Single settlement of contests: for every contest address            *)
(* resolve_contest succeeds at most once, also across create_contest calls *)
(* made after the record was destroyed, so the prize is paid at most once  *)
(* per contest, and every resolve_contest after a successful one fails     *)
(* with ContestResolved.                                                   *)
(***************************************************************************)
SingleSettlementOfContests ==
    [][last'.op = "resolve_contest" =>
        /\ \A contest \in ContestKeys : hist'.resolves[contest] <= 1
        /\ \A authority \in Users, reward_vault \in VaultKeys,
              contest \in ContestKeys, entry \in EntryKeys,
              reward_destination \in Contestants,
              params \in [contest_seed : ContestSeeds, entry_seed : EntrySeeds,
                          winner : Contestants, score : ScoreInputs] :
              (/\ hist.resolves[contest] >= 1
               /\ resolve_contest(authority, reward_vault, contest, entry,
                                  reward_destination, params))
              => last'.err = "ContestResolved"]_vars

\* the part of C3 about the prize alone: no contest address pays out twice
PrizePaidOnce == \A contest \in ContestKeys : hist.resolves[contest] <= 1

(***************************************************************************)
(* C5  A listing's active flag goes from true to false exactly once, by    *)
(* purchase_listing or cancel_listing, and never returns to true: once a   *)
(* listing is Inactive nothing makes it Active again, and                  *)
(* purchase_listing and cancel_listing on it fail with ListingNotActive.   *)
(***************************************************************************)
ListingDeactivatesOnce ==
    [][/\ \A listing \in hist.deactivated :
             ~(listing \in DOMAIN data' /\ data'[listing].active)
       /\ last'.op = "purchase_listing" =>
            \A buyer \in Users, listing \in hist.deactivated,
               treasury \in VaultKeys, seller_destination \in {U1, U2},
               params \in [expected_price : Prices],
               remaining_accounts \in PurchaseTables :
               purchase_listing(buyer, listing, treasury, seller_destination,
                                params, remaining_accounts)
               => last'.err = "ListingNotActive"
       /\ last'.op = "cancel_listing" =>
            \A seller \in Users, listing \in hist.deactivated,
               treasury \in VaultKeys :
               cancel_listing(seller, listing, treasury)
               => last'.err = "ListingNotActive"]_vars

\* the part of C5 about the flag alone: a deactivated listing is never on offer
NeverActiveAgain ==
    \A listing \in hist.deactivated :
        ~(listing \in DOMAIN data /\ data[listing].active)

(***************************************************************************)
(* C11  Entry window: submit_contest_entry succeeds only while the contest *)
(* is not Settled and now <= deadline; it fails with ContestDeadlinePassed *)
(* when now > deadline and with ContestResolved once the contest has been  *)
(* resolved, so no entry record is ever created for a contest after it was *)
(* resolved; every created entry starts with score 0, and at most one      *)
(* entry exists per (contest, entry_seed).                                 *)
(***************************************************************************)
SubmitGate ==
    \A contestant \in Contestants, contest \in ContestKeys,
       params \in [contest_seed : ContestSeeds, entry_seed : EntrySeeds,
                   offchain_hash : Hashes] :
       LET err == submit_contest_entry_err(contestant, contest, params)
       IN  /\ err = "ok" => /\ contest \in DOMAIN data
                            /\ ~data[contest].settled
                            /\ now <= data[contest].deadline
                            /\ EntryKey(contest, params.entry_seed) \notin DOMAIN data
           /\ hist.resolves[contest] >= 1 => err = "ContestResolved"
           /\ (/\ hist.resolves[contest] = 0
               /\ contest \in DOMAIN data
               /\ now > data[contest].deadline
               /\ ContestKey(data[contest].creator, params.contest_seed) = contest
               /\ InitCheck(lamports, contestant,
                            EntryKey(contest, params.entry_seed)) = "ok")
              => err = "ContestDeadlinePassed"

SubmitStep ==
    (last'.op = "submit_contest_entry" /\ last'.err = "ok")
    => \E e \in EntryKeys \ DOMAIN data :
          /\ DOMAIN data' = DOMAIN data \cup {e}
          /\ data'[e].score = 0
          /\ data'[e].contest \in DOMAIN data
          /\ hist.resolves[data'[e].contest] = 0

EntryWindow == [] SubmitGate /\ [][SubmitStep]_vars

\* the parts of C11 that do not name ContestResolved, for a contest record
\* as it is stored now
SubmitGateStored ==
    \A contestant \in Contestants, contest \in ContestKeys,
       params \in [contest_seed : ContestSeeds, entry_seed : EntrySeeds,
                   offchain_hash : Hashes] :
       LET err == submit_contest_entry_err(contestant, contest, params)
       IN  /\ err = "ok" => /\ contest \in DOMAIN data
                            /\ ~data[contest].settled
                            /\ now <= data[contest].deadline
                            /\ EntryKey(contest, params.entry_seed) \notin DOMAIN data
           /\ contest \notin DOMAIN data => err = "AccountNotInitialized"
           /\ (/\ contest \in DOMAIN data
               /\ now > data[contest].deadline
               /\ ContestKey(data[contest].creator, params.contest_seed) = contest
               /\ InitCheck(lamports, contestant,
                            EntryKey(contest, params.entry_seed)) = "ok")
              => err = "ContestDeadlinePassed"

\* no entry is created at the address of a contest that was resolved before
NoEntryAfterResolution ==
    [][(last'.op = "submit_contest_entry" /\ last'.err = "ok")
        => \A e \in DOMAIN data' \ DOMAIN data :
              hist.resolves[data'[e].contest] = 0]_vars

(***************************************************************************)
(* C12  Winner double-check: resolve_contest pays the prize only to an     *)
(* account that is both the supplied winner and the contestant stored in   *)
(* an entry record of that same contest; if winner differs from the payout *)
(* destination or from the named entry's contestant, or the entry belongs  *)
(* to another contest, the call fails (with WinnerAccountMismatch for the  *)
(* two identity checks, once the accounts are valid and the deadline has   *)
(* come) and no funds move.                                                *)
(***************************************************************************)
WinnerGate ==
    \A authority \in Users, reward_vault \in VaultKeys,
       contest \in (ContestKeys \cup RivalKeys) \cap DOMAIN data,
       entry \in (EntryKeys \cup RivalEntryKeys) \cap DOMAIN data,
       reward_destination \in Contestants,
       params \in [contest_seed : ContestSeeds \cup RivalSeeds,
                   entry_seed : EntrySeeds, winner : Contestants,
                   score : ScoreInputs] :
       LET err == resolve_contest_err(authority, reward_vault, contest, entry,
                                      reward_destination, params)
           reached == /\ ResolveContestAccounts(authority, reward_vault,
                                                contest, entry, params) = "ok"
                      /\ now >= data[contest].deadline
       IN  /\ err = "ok" => /\ params.winner = reward_destination
                            /\ params.winner = data[entry].contestant
                            /\ data[entry].contest = contest
           /\ data[entry].contest # contest => err # "ok"
           /\ (reached /\ params.winner # reward_destination)
              => err = "WinnerAccountMismatch"
           /\ (reached /\ params.winner # data[entry].contestant)
              => err = "WinnerAccountMismatch"

WinnerStep ==
    /\ (last'.op = "resolve_contest" /\ last'.err # "ok")
       => (lamports' = lamports /\ data' = data)
    /\ (last'.op = "resolve_contest" /\ last'.err = "ok")
       => \E c \in DOMAIN data \ DOMAIN data' :
             \E e \in (EntryKeys \cup RivalEntryKeys) \cap DOMAIN data :
                /\ data[e].contest = c
                /\ lamports'[data[e].contestant]
                      = lamports[data[e].contestant] + data[c].prize_lamports
                /\ \A a \in Users \ {data[e].contestant} :
                      lamports'[a] = lamports[a]

WinnerDoubleCheck == [] WinnerGate /\ [][WinnerStep]_vars

\* both contests are open past their deadline, entered by different
\* contestants, and a resolution naming the wrong winner was just refused
WinnerDoubleCheckWitness ==
    /\ last = Result("resolve_contest", AUTHORITY, "WinnerAccountMismatch")
    /\ \E c \in ContestKeys \cap DOMAIN data, r \in RivalKeys \cap DOMAIN data :
          \E e \in EntryKeys \cap DOMAIN data, f \in RivalEntryKeys \cap DOMAIN data :
             /\ now >= data[c].deadline /\ now >= data[r].deadline
             /\ data[e].contest = c /\ data[f].contest = r
             /\ data[e].contestant # data[f].contestant

(***************************************************************************)
(* C13  Subscription gating: the first process_subscription_payment for a  *)
(* fresh instance succeeds for any now_ts; every later payment on that     *)
(* instance fails with SubscriptionPeriodNotReached for all                *)
(* now_ts < last_payment_at + period_seconds and succeeds for all          *)
(* now_ts >= last_payment_at + period_seconds, whatever now_ts value the   *)
(* first payment used (the accounts of the call being valid and the        *)
(* subscriber able to pay).                                                *)
(***************************************************************************)
\* the accounts of a payment are the configured ones and the subscriber can pay
PaymentValid(subscriber, treasury, plan, creator_destination, params) ==
    LET instance == InstanceKey(subscriber, params.instance_seed)
    IN  /\ ConfigAndVault(treasury) = "ok"
        /\ plan \in DOMAIN data
        /\ Config.treasury = treasury
        /\ creator_destination = data[plan].creator
        /\ data[plan].active
        /\ is_native_mint(data[plan].mint)
        /\ lamports[subscriber] >=
              data[plan].price_per_period
              + (IF instance \in DOMAIN data THEN 0 ELSE minimum_balance(0))

SubscriptionGating ==
    \A subscriber \in Subscribers, treasury \in VaultKeys, plan \in PlanKeys,
       creator_destination \in Users,
       params \in [instance_seed : InstanceSeeds, now_ts : NowInputs] :
       LET instance == InstanceKey(subscriber, params.instance_seed)
           err == process_subscription_payment_err(subscriber, treasury, plan,
                                                   creator_destination, params,
                                                   <<>>)
           valid == PaymentValid(subscriber, treasury, plan,
                                 creator_destination, params)
       IN  /\ (instance \notin DOMAIN data /\ valid) => err = "ok"
           /\ (instance \in DOMAIN data /\ valid)
              => IF params.now_ts < data[instance].last_payment_at
                                     + data[plan].period_seconds
                 THEN err = "SubscriptionPeriodNotReached"
                 ELSE err = "ok"

\* the same gate for the instances whose last payment was not made at now_ts = 0
SubscriptionGatingNonZero ==
    \A subscriber \in Subscribers, treasury \in VaultKeys, plan \in PlanKeys,
       creator_destination \in Users,
       params \in [instance_seed : InstanceSeeds, now_ts : NowInputs] :
       LET instance == InstanceKey(subscriber, params.instance_seed)
           err == process_subscription_payment_err(subscriber, treasury, plan,
                                                   creator_destination, params,
                                                   <<>>)
           valid == PaymentValid(subscriber, treasury, plan,
                                 creator_destination, params)
       IN  /\ (instance \notin DOMAIN data /\ valid) => err = "ok"
           /\ (instance \in DOMAIN data /\ valid
                  /\ data[instance].last_payment_at # 0)
              => IF params.now_ts < data[instance].last_payment_at
                                     + data[plan].period_seconds
                 THEN err = "SubscriptionPeriodNotReached"
                 ELSE err = "ok"

(***************************************************************************)
(* C14  For every subscription instance, last_payment_at is non-decreasing *)
(* over any sequence of successful process_subscription_payment calls with *)
(* caller-supplied now_ts values (any i64), and two consecutive successful *)
(* payments on one instance are at least one full period apart.            *)
(***************************************************************************)
LastPaymentMonotone ==
    [][(last'.op = "process_subscription_payment" /\ last'.err = "ok")
        => \A instance \in InstanceKeys \cap DOMAIN data :
              /\ data'[instance].last_payment_at >= data[instance].last_payment_at
              /\ data'[instance] # data[instance]
                 => data'[instance].last_payment_at
                      >= data[instance].last_payment_at
                         + data[data'[instance].plan].period_seconds]_vars

\* the same for the instances whose last payment was not made at now_ts = 0
LastPaymentMonotoneNonZero ==
    [][(last'.op = "process_subscription_payment" /\ last'.err = "ok")
        => \A instance \in InstanceKeys \cap DOMAIN data :
              data[instance].last_payment_at # 0
              => /\ data'[instance].last_payment_at
                      >= data[instance].last_payment_at
                         + data[data'[instance].plan].period_seconds
                 /\ data'[instance].last_payment_at
                      > data[instance].last_payment_at]_vars


\* ---- C15: the whitelist gate ----
NextWhitelist ==
    \/ InitializeConfig
    \/ SetAdminConfig
    \/ UpdateWhitelist
    \/ CreateListing
    \/ CancelListing
    \/ PurchaseListing
    \/ FinalizeOrder
    \/ ConfigureSubscription
    \/ ProcessSubscriptionPayment

InitWhitelist == Init /\ scope \in WhitelistScopes

SpecWhitelist == InitWhitelist /\ [][NextWhitelist]_vars

Listed(mint) ==
    /\ TOKEN_WHITELIST \in DOMAIN data
    /\ Contains(data[TOKEN_WHITELIST].allowed_mints, mint)

\* everything create_listing asks for besides the currency
ListingCallValid(authority, seller, treasury, params) ==
    /\ {CONFIG, TOKEN_WHITELIST, treasury} \subseteq DOMAIN data
    /\ ListingKey(seller, params.listing_seed) \notin DOMAIN data
    /\ lamports[authority] >= RentExemptMinimum
    /\ Config.authority = authority
    /\ Config.treasury = treasury
    /\ params.seller_signature = [signer |-> seller, msg |-> params.offchain_hash]

\* everything configure_subscription asks for besides the currency
PlanCallValid(creator, params) ==
    /\ {CONFIG, TOKEN_WHITELIST} \subseteq DOMAIN data
    /\ PlanKey(creator, params.plan_seed) \notin DOMAIN data
    /\ lamports[creator] >= RentExemptMinimum
    /\ params.period_seconds > 0

ListingParams ==
    [listing_seed : ListingSeeds, offchain_hash : Hashes, price_lamports : Prices,
     mint : Mints, seller_signature : Signatures]
PlanParams ==
    [plan_seed : PlanSeeds, offchain_hash : Hashes, price_per_period : {1000},
     period_seconds : PeriodInputs, mint : Mints]

WhitelistGateState ==
    /\ \A authority \in Users, seller \in Sellers, treasury \in VaultKeys,
          params \in ListingParams :
          LET err   == create_listing_err(authority, seller, treasury, params)
              valid == ListingCallValid(authority, seller, treasury, params)
          IN  /\ (~is_native_mint(params.mint) /\ ~Listed(params.mint))
                 => /\ err # "ok"
                    /\ valid => err = "TokenNotWhitelisted"
              /\ is_native_mint(params.mint) => (err = "ok" <=> valid)
    /\ \A creator \in PlanCreators, params \in PlanParams :
          LET err   == configure_subscription_err(creator, params)
              valid == PlanCallValid(creator, params)
          IN  /\ (~is_native_mint(params.mint) /\ ~Listed(params.mint))
                 => /\ err # "ok"
                    /\ valid => err = "TokenNotWhitelisted"
              /\ is_native_mint(params.mint) => (err = "ok" <=> valid)

WhitelistGateStep ==
    /\ last'.err = "TokenNotWhitelisted" => (data' = data /\ lamports' = lamports)
    /\ \A k \in DOMAIN data' \ DOMAIN data :
          (data'[k].kind \in {"ListingAccount", "SubscriptionPlanAccount"}
           /\ ~is_native_mint(data'[k].mint))
          => Listed(data'[k].mint)

\* C15: create_listing and configure_subscription with a non-native currency
\* that is not in the whitelist never succeed, fail with TokenNotWhitelisted
\* when the call is valid otherwise, and create no record; with the native
\* currency they succeed exactly when the call is valid otherwise, whatever the
\* whitelist holds.
WhitelistGate == [] WhitelistGateState /\ [][WhitelistGateStep]_vars

\* a configure_subscription in a currency that is not on the whitelist has
\* just been refused, and no plan exists
WhitelistGateWitness ==
    /\ last.op = "configure_subscription"
    /\ last.err = "TokenNotWhitelisted"
    /\ \A k \in DOMAIN data : data[k].kind # "SubscriptionPlanAccount"


\* ---- C16: the rent floor of the two vaults ----
\* C16: every debit of the treasury vault or the reward vault, the one of
\* create_contest included, is refused when it would leave the vault below the
\* rent-exempt minimum, so once the marketplace is initialized both vaults hold
\* at least that minimum in every reachable state.
VaultRentFloor ==
    CONFIG \in DOMAIN data
    => \A v \in VaultKeys : lamports[v] >= minimum_balance(0)

\* the two withdrawals keep the floor by themselves
WithdrawRentFloor ==
    [][last'.op \in {"withdraw_treasury_native", "withdraw_reward_native"}
       => \A v \in VaultKeys :
             lamports[v] >= minimum_balance(0) => lamports'[v] >= minimum_balance(0)]_vars

\* a withdrawal that would cut into the floor is refused with the declared error
WithdrawRentFloorRefused ==
    \A authority \in Users, v \in {REWARD_VAULT},
       params \in [amount : WithdrawInputs] :
       (/\ {CONFIG, v} \subseteq DOMAIN data
        /\ Config.authority = authority
        /\ Config.reward_vault = v
        /\ params.amount > 0
        /\ lamports[v] >= params.amount
        /\ lamports[v] - params.amount < minimum_balance(0))
       => withdraw_reward_native_err(authority, v, AUTHORITY, params)
          = "RentExemptionViolation"

\* create_contest has emptied the reward vault
VaultDrainedByContest ==
    /\ last.op = "create_contest"
    /\ last.err = "ok"
    /\ \E v \in VaultKeys : lamports[v] = 0 /\ v \notin DOMAIN data


\* ---- C17: positive prices ----
\* C17: create_listing rejects price 0, so every listing record has
\* price_lamports > 0 and every order record has amount_paid > 0.
PositivePrices ==
    \A k \in DOMAIN data :
       /\ data[k].kind = "ListingAccount" => data[k].price_lamports > 0
       /\ data[k].kind = "OrderAccount" => data[k].amount_paid > 0

\* the order half alone: an escrow that holds nothing beyond its rent
PositiveOrders ==
    \A k \in DOMAIN data : data[k].kind = "OrderAccount" => data[k].amount_paid > 0


\* ---- C18: what the seller's signature authorizes ----
\* the one offer seller U1 agreed to off-chain; the signature U1 handed to the
\* operator for it signs the message create_listing verifies, the payload hash
SellerAuthorized ==
    [seller |-> U1, price_lamports |-> 1000, mint |-> NATIVE_MINT,
     offchain_hash |-> "h1"]

\* C18: a listing is created only with a (price, currency, payload-hash) tuple
\* its seller authorized: every listing of U1 carries the authorized price and
\* currency, whatever the operator passes along with U1's signature.
SellerAuthorization ==
    \A k \in DOMAIN data :
       (data[k].kind = "ListingAccount" /\ data[k].seller = SellerAuthorized.seller)
       => /\ data[k].price_lamports = SellerAuthorized.price_lamports
          /\ data[k].mint = SellerAuthorized.mint
          /\ data[k].offchain_hash = SellerAuthorized.offchain_hash

\* what the signature does bind: the seller and the payload hash
SignatureBindsHash ==
    \A authority \in Users, seller \in Sellers, treasury \in VaultKeys,
       params \in ListingParams :
       create_listing_err(authority, seller, treasury, params) = "ok"
       => params.seller_signature
          = [signer |-> seller, msg |-> params.offchain_hash]


\* ---- C19: a token escrow that is short ----
\* finalize_order is asked to settle a token-path order out of a token account
\* of the order that holds less than the order's amount
Shortfall(order, remaining_accounts) ==
    /\ order \in DOMAIN data
    /\ data[order].kind = "OrderAccount"
    /\ ~is_native_mint(data[order].mint)
    /\ Len(remaining_accounts) >= 5
    /\ remaining_accounts[2] \in TokenAccountKeys
    /\ tokens[remaining_accounts[2]].amount < data[order].amount_paid

\* everything else about the call is right
ShortfallCallValid(authority, treasury, order, buyer, seller_destination, remaining_accounts) ==
    /\ {CONFIG, treasury} \subseteq DOMAIN data
    /\ authority = Config.authority
    /\ treasury = Config.treasury
    /\ buyer = data[order].buyer
    /\ seller_destination = data[order].seller
    /\ ~data[order].settled
    /\ remaining_accounts
       = <<data[order].mint, ORDER_ATA_SHORT, SELLER_ATA, TREASURY_ATA, TOKEN_PROGRAM>>
    /\ \A a \in {ORDER_ATA_SHORT, SELLER_ATA, TREASURY_ATA} :
          tokens[a].open /\ tokens[a].mint = data[order].mint
    /\ tokens[ORDER_ATA_SHORT].owner = order
    /\ tokens[SELLER_ATA].owner = data[order].seller
    /\ tokens[TREASURY_ATA].owner = Config.treasury

TokenShortfallState ==
    \A authority \in Users, treasury \in VaultKeys, order \in OrderKeys,
       buyer \in Users, seller_destination \in {U1, U2},
       remaining_accounts \in FinalizeTables :
       Shortfall(order, remaining_accounts)
       => LET err == finalize_order_err(authority, treasury, order, buyer,
                                        seller_destination, remaining_accounts)
          IN  /\ err \notin {"ok", "InsufficientFunds"}
              /\ ShortfallCallValid(authority, treasury, order, buyer,
                                    seller_destination, remaining_accounts)
                 => err = "EscrowBalanceTooLow"

TokenShortfallStep ==
    (last'.op = "finalize_order" /\ last'.err = "EscrowBalanceTooLow")
    => /\ tokens' = tokens
       /\ lamports' = lamports
       /\ data' = data

\* C19: finalize_order on a token-path order whose escrow token account holds
\* less than seller_amount + fee fails with EscrowBalanceTooLow, moves no
\* tokens to the seller or the treasury, does not close the escrow token
\* account and leaves the order Funded.
TokenShortfall == [] TokenShortfallState /\ [][TokenShortfallStep]_vars

\* a token order of 1000 has just been refused settlement out of an escrow
\* token account holding 999, which is still open, and the order is still there
TokenShortfallWitness ==
    /\ last.op = "finalize_order"
    /\ last.err = "EscrowBalanceTooLow"
    /\ tokens[ORDER_ATA_SHORT].open
    /\ tokens[ORDER_ATA_SHORT].amount = 999
    /\ \E order \in OrderKeys :
          /\ order \in DOMAIN data
          /\ data[order].amount_paid = 1000
          /\ ~is_native_mint(data[order].mint)
          /\ ~data[order].settled


ErrorAtomicityTokens ==
    (last.op = "finalize_order" /\ last.err = "NonNativeHasBalance")
    => tokens[ORDER_ATA_SHORT].amount >= 999

\* ---- C21: who may cancel a listing ----
\* what a cancel_listing on an existing listing, with the configured treasury,
\* answers when the signer is not the stored seller: the given error
CancelGateState(not_seller_err) ==
    \A seller \in Users, listing \in ListingKeys, treasury \in VaultKeys :
       (/\ {CONFIG, listing, treasury} \subseteq DOMAIN data
        /\ Config.treasury = treasury)
       => LET err == cancel_listing_err(seller, listing, treasury)
          IN  /\ err = "ok" <=> (data[listing].seller = seller /\ data[listing].active)
              /\ data[listing].seller # seller => err = not_seller_err
              /\ (data[listing].seller = seller /\ ~data[listing].active)
                 => err = "ListingNotActive"

\* a successful cancel_listing destroys the listing and credits all it held to
\* the treasury vault; a refused one changes nothing
CancelStep ==
    last'.op = "cancel_listing"
    => IF last'.err = "ok"
       THEN \E listing \in ListingKeys :
               /\ listing \in DOMAIN data
               /\ data[listing].seller = last'.signer
               /\ data[listing].active
               /\ listing \notin DOMAIN data'
               /\ lamports'[listing] = 0
               /\ lamports'[Config.treasury]
                  = lamports[Config.treasury] + lamports[listing]
               /\ \A a \in DOMAIN lamports \ {listing, Config.treasury} :
                     lamports'[a] = lamports[a]
       ELSE lamports' = lamports /\ data' = data

\* C21: cancel_listing succeeds only when the caller is the seller stored in
\* the listing and the listing is Active; a call by anyone else fails with
\* InvalidAuthority and a call on an Inactive listing with ListingNotActive; on
\* success the listing record is destroyed and its whole balance is credited to
\* the treasury vault.
CancelListingGate == [] CancelGateState("InvalidAuthority") /\ [][CancelStep]_vars

\* the same with the error the account constraints give a foreign signer
CancelListingGateSeeds == [] CancelGateState("ConstraintSeeds") /\ [][CancelStep]_vars

\* no cancel_listing ever answers InvalidAuthority
CancelNeverInvalidAuthority ==
    ~(last.op = "cancel_listing" /\ last.err = "InvalidAuthority")

\* ---- C22: what create_contest asks for ----
\* everything create_contest asks for besides prize, deadline and vault balance
ContestCallValid(creator, reward_vault, params) ==
    /\ {CONFIG, reward_vault} \subseteq DOMAIN data
    /\ Config.reward_vault = reward_vault
    /\ ContestKey(creator, params.contest_seed) \notin DOMAIN data
    /\ lamports[creator] >= minimum_balance(0)

ContestParams ==
    [contest_seed : ContestSeeds, offchain_hash : Hashes,
     deadline : DeadlineInputs, prize_lamports : PrizeInputs]

CreateContestGate ==
    \A creator \in Creators, reward_vault \in VaultKeys, params \in ContestParams :
       ContestCallValid(creator, reward_vault, params)
       => LET err == create_contest_err(creator, reward_vault, params)
          IN  /\ err = "ok" <=> /\ params.prize_lamports > 0
                                /\ params.deadline > now
                                /\ lamports[reward_vault] >= params.prize_lamports
              /\ ~(params.prize_lamports > 0) => err = "InvalidPrizeAmount"
              /\ (params.prize_lamports > 0 /\ ~(params.deadline > now))
                 => err = "ContestDeadlinePassed"
              /\ (/\ params.prize_lamports > 0
                  /\ params.deadline > now
                  /\ lamports[reward_vault] < params.prize_lamports)
                 => err = "EscrowBalanceTooLow"

\* every contest record has a positive prize and holds it on top of its rent
OpenContestsFunded ==
    \A k \in DOMAIN data :
       data[k].kind = "ContestAccount"
       => /\ data[k].prize_lamports > 0
          /\ lamports[k] = minimum_balance(0) + data[k].prize_lamports

\* a successful create_contest moves exactly the prize from the reward vault to
\* the new escrow, whose deadline is after the clock; a refused one moves nothing
CreateContestStep ==
    last'.op = "create_contest"
    => IF last'.err = "ok"
       THEN \E k \in DOMAIN data' \ DOMAIN data :
               /\ data'[k].kind = "ContestAccount"
               /\ data'[k].deadline > now
               /\ data'[k].prize_lamports > 0
               /\ lamports'[k] = lamports[k] + minimum_balance(0)
                                 + data'[k].prize_lamports
               /\ lamports'[data'[k].reward_pool]
                  = lamports[data'[k].reward_pool] - data'[k].prize_lamports
               /\ lamports'[last'.signer]
                  = lamports[last'.signer] - minimum_balance(0)
               /\ \A a \in DOMAIN lamports \ {k, data'[k].reward_pool, last'.signer} :
                     lamports'[a] = lamports[a]
       ELSE lamports' = lamports /\ data' = data

\* C22: create_contest succeeds only with prize > 0, deadline > now and a
\* reward-vault balance >= prize, failing with InvalidPrizeAmount,
\* ContestDeadlinePassed, EscrowBalanceTooLow in that order; on success the
\* reward vault is debited and the new escrow credited by exactly the prize, so
\* every open contest has a positive prize and a deadline that was in the
\* future when it was created.
CreateContestChecks ==
    [] (CreateContestGate /\ OpenContestsFunded) /\ [][CreateContestStep]_vars

\* a contest of 5000 has just been created out of a reward vault that held
\* exactly its rent and 5000
CreateContestChecksWitness ==
    /\ last.op = "create_contest"
    /\ last.err = "ok"
    /\ \E k \in ContestKeys :
          /\ k \in DOMAIN data
          /\ data[k].prize_lamports = 5000
          /\ lamports[k] = minimum_balance(0) + 5000
          /\ lamports[data[k].reward_pool] = minimum_balance(0)

\* ---- C23: entry scores ----
EntriesOf(contest) ==
    {e \in DOMAIN data :
        data[e].kind = "ContestEntryAccount" /\ data[e].contest = contest}

\* a score is written only by a successful resolve_contest, to one entry, whose
\* contestant receives the prize; an entry starts with score 0
ScoreWrittenByResolve ==
    /\ \A e \in DOMAIN data' \ DOMAIN data :
          data'[e].kind = "ContestEntryAccount" => data'[e].score = 0
    /\ \A e \in DOMAIN data \cap DOMAIN data' :
          (data[e].kind = "ContestEntryAccount" /\ data'[e].score # data[e].score)
          => /\ last'.op = "resolve_contest"
             /\ last'.err = "ok"
             /\ data[e].contest \notin DOMAIN data'
             /\ lamports'[data[e].contestant] > lamports[data[e].contestant]
             /\ \A f \in EntriesOf(data[e].contest) \ {e} :
                   data'[f].score = data[f].score

\* an entry with score 0 whose contest address has been resolved keeps score 0
LoserKeepsZero ==
    \A e \in DOMAIN data \cap DOMAIN data' :
       (/\ data[e].kind = "ContestEntryAccount"
        /\ hist.resolves[data[e].contest] >= 1
        /\ data[e].score = 0)
       => data'[e].score = 0

\* at most one entry of a contest carries a written score
OneScorePerContest ==
    \A contest \in ContestKeys :
       Cardinality({e \in EntriesOf(contest) : data[e].score # 0}) <= 1

\* C23: an entry's score is 0 unless a successful resolve_contest named that
\* entry the winner; an entry that was not named the winner when its contest
\* was resolved keeps score 0 over any later operations, and at most one entry
\* per contest ever has its score written.
EntryScores ==
    [] OneScorePerContest /\ [][ScoreWrittenByResolve /\ LoserKeepsZero]_vars

\* the first part alone
EntryScoresWritten == [][ScoreWrittenByResolve]_vars

\* ---- C24: what a purchase moves and records ----
\* a successful purchase_listing creates the buyer's order of that listing with
\* the listing's price, seller and currency, and moves the price, and nothing
\* else beyond the order's rent, from the buyer into the order's escrow
PurchaseMovesPrice ==
    (last'.op = "purchase_listing" /\ last'.err = "ok")
    => \E listing \in ListingKeys :
          LET buyer == last'.signer
              order == OrderKey(listing, buyer)
              price == data[listing].price_lamports
          IN  /\ listing \in DOMAIN data
              /\ order \notin DOMAIN data
              /\ order \in DOMAIN data'
              /\ data'[order].kind = "OrderAccount"
              /\ data'[order].buyer = buyer
              /\ data'[order].listing = listing
              /\ data'[order].amount_paid = price
              /\ data'[order].seller = data[listing].seller
              /\ data'[order].mint = data[listing].mint
              /\ \A a \in DOMAIN lamports \ {buyer, order} :
                    lamports'[a] = lamports[a]
              /\ IF is_native_mint(data[listing].mint)
                 THEN /\ lamports'[order] = minimum_balance(0) + price
                      /\ lamports'[buyer]
                         = lamports[buyer] - minimum_balance(0) - price
                      /\ tokens' = tokens
                 ELSE /\ lamports'[order] = minimum_balance(0)
                      /\ lamports'[buyer] = lamports[buyer] - minimum_balance(0)
                      /\ \E from \in TokenAccountKeys, to \in TokenAccountKeys :
                            /\ from # to
                            /\ tokens[from].owner = buyer
                            /\ tokens[to].owner = order
                            /\ tokens[to].mint = data[listing].mint
                            /\ tokens'[from].amount = tokens[from].amount - price
                            /\ tokens'[to].amount = tokens[to].amount + price
                            /\ \A a \in TokenAccountKeys \ {from, to} :
                                  tokens'[a] = tokens[a]

\* an order record stays as it was written for as long as it exists
OrderFieldsFrozen ==
    \A order \in DOMAIN data \cap DOMAIN data' :
       data[order].kind = "OrderAccount" => data'[order] = data[order]

\* C24: a successful purchase_listing moves exactly the listing price from the
\* buyer into the new order's escrow and records amount_paid = listing price,
\* seller = listing seller, currency = listing currency; these order fields
\* never change until the order is destroyed.
PurchaseRecordsPrice == [][PurchaseMovesPrice /\ OrderFieldsFrozen]_vars

\* a token purchase of 1000 has just gone through: the order's token account
\* holds the 1000 the buyer's token account no longer has
PurchaseRecordsPriceWitness ==
    /\ last.op = "purchase_listing"
    /\ last.err = "ok"
    /\ tokens[ORDER_ATA].amount = 1000
    /\ tokens[BUYER_ATA].amount = 0
    /\ \E order \in OrderKeys :
          /\ order \in DOMAIN data
          /\ data[order].amount_paid = 1000
          /\ data[order].mint = USDC_MINT

\* the same for a native purchase: the order holds its rent and the 1000
PurchaseNativeReached ==
    /\ last.op = "purchase_listing"
    /\ last.err = "ok"
    /\ \E order \in OrderKeys :
          /\ order \in DOMAIN data
          /\ is_native_mint(data[order].mint)
          /\ lamports[order] = minimum_balance(0) + 1000

\* ---- C25: what a subscription payment moves ----
\* a successful process_subscription_payment takes exactly the plan's price
\* from the subscriber, gives floor(price * fee_bps / 10000) to the treasury
\* and the rest to the plan's creator; besides the rent of an instance record
\* it creates, no other balance changes and no other record appears
PaymentSplit ==
    (last'.op = "process_subscription_payment" /\ last'.err = "ok")
    => \E plan \in PlanKeys, instance \in InstanceKeys :
          LET subscriber == last'.signer
              creator    == data[plan].creator
              treasury   == Config.treasury
              price      == data[plan].price_per_period
              fee        == (price * Config.fee_bps) \div 10000
              rent       == IF instance \in DOMAIN data THEN 0
                            ELSE minimum_balance(0)
          IN  /\ plan \in DOMAIN data
              /\ instance \in DOMAIN data'
              /\ data'[instance].plan = plan
              /\ data'[instance].subscriber = subscriber
              /\ DOMAIN data' = DOMAIN data \cup {instance}
              /\ \A k \in DOMAIN data \ {instance} : data'[k] = data[k]
              /\ lamports'[instance] = lamports[instance] + rent
              /\ \A a \in DOMAIN lamports \ {subscriber, creator, treasury, instance} :
                    lamports'[a] = lamports[a]
              /\ IF is_native_mint(data[plan].mint)
                 THEN /\ lamports'[subscriber] = lamports[subscriber] - rent - price
                      /\ lamports'[treasury] = lamports[treasury] + fee
                      /\ lamports'[creator] = lamports[creator] + (price - fee)
                      /\ tokens' = tokens
                 ELSE /\ lamports'[subscriber] = lamports[subscriber] - rent
                      /\ lamports'[treasury] = lamports[treasury]
                      /\ lamports'[creator] = lamports[creator]
                      /\ \E s \in TokenAccountKeys, c \in TokenAccountKeys,
                            t \in TokenAccountKeys :
                            /\ Cardinality({s, c, t}) = 3
                            /\ tokens[s].owner = subscriber
                            /\ tokens[c].owner = creator
                            /\ tokens[t].owner = treasury
                            /\ tokens'[s].amount = tokens[s].amount - price
                            /\ tokens'[t].amount = tokens[t].amount + fee
                            /\ tokens'[c].amount = tokens[c].amount + (price - fee)
                            /\ \A a \in TokenAccountKeys \ {s, c, t} :
                                  tokens'[a] = tokens[a]

\* C25: a successful process_subscription_payment debits the subscriber exactly
\* price_per_period, crediting fee = compute_fee(price_per_period, fee_bps) to
\* the treasury and price_per_period - fee to the plan's creator directly; no
\* escrow record is created or credited, and a leg of amount zero moves nothing.
SubscriptionSplit == [][PaymentSplit]_vars

\* a native payment of 1000 at 250 bps has just gone through: 25 is with the
\* treasury and 975 with the creator, whose wallet was empty
SubscriptionSplitWitness ==
    /\ last.op = "process_subscription_payment"
    /\ last.err = "ok"
    /\ Config.fee_bps = 250
    /\ lamports[Config.treasury] = minimum_balance(0) + 25
    /\ lamports[U1] = 975

\* the same on the token path
SubscriptionSplitTokens ==
    /\ last.op = "process_subscription_payment"
    /\ last.err = "ok"
    /\ tokens[TREASURY_ATA].amount = 25
    /\ tokens[SELLER_ATA].amount = 975
    /\ tokens[BUYER_ATA].amount = 0

\* ---- C26: the payment clock of an instance ----
PaymentArgs ==
    [subscriber : Subscribers, treasury : VaultKeys, plan : PlanKeys,
     creator_destination : Users,
     params : [instance_seed : InstanceSeeds, now_ts : NowInputs],
     remaining_accounts : SubscriptionTables]

\* a successful payment stores the now_ts it was called with
LastPaymentIsNow ==
    (last'.op = "process_subscription_payment" /\ last'.err = "ok")
    => \A a \in PaymentArgs :
          process_subscription_payment(a.subscriber, a.treasury, a.plan,
                                       a.creator_destination, a.params,
                                       a.remaining_accounts)
          => data'[InstanceKey(a.subscriber,
                               a.params.instance_seed)].last_payment_at
             = a.params.now_ts

\* on this instance every otherwise valid native payment before
\* last_payment_at + period is refused, and every one from then on accepted
NextDueFromLast(instance) ==
    \A subscriber \in Subscribers, treasury \in VaultKeys, plan \in PlanKeys,
       creator_destination \in Users,
       params \in [instance_seed : InstanceSeeds, now_ts : NowInputs] :
       (/\ instance = InstanceKey(subscriber, params.instance_seed)
        /\ PaymentValid(subscriber, treasury, plan, creator_destination, params))
       => process_subscription_payment_err(subscriber, treasury, plan,
                                           creator_destination, params, <<>>)
          = IF params.now_ts < data[instance].last_payment_at
                               + data[plan].period_seconds
            THEN "SubscriptionPeriodNotReached" ELSE "ok"

\* a payment on an instance that was due earlier than now_ts
LatePayment(instance) ==
    /\ last'.op = "process_subscription_payment"
    /\ last'.err = "ok"
    /\ instance \in DOMAIN data
    /\ data'[instance].last_payment_at
       > data[instance].last_payment_at
         + data[data'[instance].plan].period_seconds

LatePaymentRestartsPeriod ==
    \A instance \in InstanceKeys :
       LatePayment(instance) => NextDueFromLast(instance)'

\* C26: after every successful process_subscription_payment the instance's
\* last_payment_at equals the supplied now_ts (not last_payment_at + period),
\* so after a late payment the next one is due one period after that now_ts:
\* nothing is accepted earlier.
PaymentClock == [][LastPaymentIsNow /\ LatePaymentRestartsPeriod]_vars

\* the first half alone
PaymentClockStored == [][LastPaymentIsNow]_vars

\* the second half for late payments made at a now_ts other than 0
PaymentClockNonZero ==
    [][\A instance \in InstanceKeys :
          (LatePayment(instance) /\ data'[instance].last_payment_at # 0)
          => NextDueFromLast(instance)']_vars

\* ---- C27: what an instance is bound to ----
PaidInstances == {i \in InstanceKeys : i \in DOMAIN data /\ i \in DOMAIN data'}

InstanceSubscriberFixed ==
    \A i \in PaidInstances : data'[i].subscriber = data[i].subscriber

InstancePlanFixed ==
    \A i \in PaidInstances : data'[i].plan = data[i].plan

\* a later payment on an instance comes at least one period of the instance's
\* own plan after the one before
InstanceGateOfItsPlan ==
    \A i \in PaidInstances :
       data'[i] # data[i]
       => data'[i].last_payment_at
          >= data[i].last_payment_at + data[data[i].plan].period_seconds

\* C27: a subscription instance is bound to one subscriber and one plan: its
\* subscriber and plan fields are fixed at its first payment and never change,
\* and the period gate of every later payment on it is evaluated against the
\* period of that same plan, also when the subscriber pays several plans.
InstanceBinding ==
    [][InstanceSubscriberFixed /\ InstancePlanFixed /\ InstanceGateOfItsPlan]_vars

\* the subscriber half alone
InstanceBoundToSubscriber == [][InstanceSubscriberFixed]_vars

\* the plan half alone
InstanceBoundToPlan == [][InstancePlanFixed]_vars

\* the gate of the plan first paid, for instances last paid at a now_ts other
\* than 0
InstanceGateFirstPlan ==
    [][\A i \in PaidInstances :
          data[i].last_payment_at # 0 => InstanceGateOfItsPlan]_vars

\* ---- C28: the fee rate never exceeds 100 % ----
FeeBpsBound == CONFIG \in DOMAIN data => Config.fee_bps \in 0..10000

\* a rate above 10000 is refused by both instructions that take one
FeeBpsRejected ==
    \A authority \in Users, fee_bps \in FeeInputs \cup {10000} :
       /\ initialize_config_err(authority, fee_bps) = "ok" => fee_bps <= 10000
       /\ set_admin_config_err(authority, fee_bps) = "ok" => fee_bps <= 10000
       /\ (fee_bps > 10000 /\ CONFIG \notin DOMAIN data
           /\ lamports[authority] >= 4 * minimum_balance(0))
          => initialize_config_err(authority, fee_bps) = "InvalidFeeBps"
       /\ (fee_bps > 10000 /\ CONFIG \in DOMAIN data
           /\ Config.authority = authority)
          => set_admin_config_err(authority, fee_bps) = "InvalidFeeBps"

\* the amounts finalize_order and process_subscription_payment split
SplitAmounts ==
    {data[k].amount_paid : k \in {o \in DOMAIN data : data[o].kind = "OrderAccount"}}
    \cup {data[k].price_per_period :
            k \in {p \in DOMAIN data : data[p].kind = "SubscriptionPlanAccount"}}

\* at the configured rate the fee of each of them is at most the amount and
\* amount - fee is defined
FeeAtMostAmount ==
    CONFIG \in DOMAIN data
    => \A amount \in SplitAmounts :
          LET fee == Fee(amount, Config.fee_bps)
          IN  /\ fee.ok
              /\ from_le_bytes(fee.val) <= amount
              /\ checked_sub(amount, from_le_bytes(fee.val)).some

NoSplitOverflow ==
    last'.op \in {"finalize_order", "process_subscription_payment"}
    => last'.err # "MathOverflow"

\* C28: config.fee_bps <= 10000 in every reachable state (initialize_config
\* and set_admin_config reject larger values with InvalidFeeBps), hence
\* fee <= amount and the subtraction amount - fee in finalize_order and
\* process_subscription_payment never fails with MathOverflow.
FeeBpsInvariant ==
    [] (FeeBpsBound /\ FeeBpsRejected /\ FeeAtMostAmount) /\ [][NoSplitOverflow]_vars

\* an order has just been settled at the highest rate, 10000 bps
FeeBpsInvariantWitness ==
    /\ last.op = "finalize_order"
    /\ last.err = "ok"
    /\ Config.fee_bps = 10000

\* ---- C29: the order of a token settlement ----
\* a finalize_order of a token-path order that is right in every respect: the
\* configured authority and treasury, the order's buyer and seller, and a side
\* table naming an escrow token account of the order that holds the order's
\* amount, and the seller's and the treasury's token accounts
TokenSettlementValid(authority, treasury, order, buyer, seller_destination, remaining_accounts) ==
    /\ {CONFIG, treasury, order} \subseteq DOMAIN data
    /\ data[order].kind = "OrderAccount"
    /\ ~is_native_mint(data[order].mint)
    /\ authority = Config.authority
    /\ treasury = Config.treasury
    /\ buyer = data[order].buyer
    /\ seller_destination = data[order].seller
    /\ Len(remaining_accounts) >= 5
    /\ remaining_accounts[1] = data[order].mint
    /\ remaining_accounts[5] = TOKEN_PROGRAM
    /\ \A i \in 2..4 :
          /\ remaining_accounts[i] \in TokenAccountKeys
          /\ tokens[remaining_accounts[i]].open
          /\ tokens[remaining_accounts[i]].mint = data[order].mint
    /\ tokens[remaining_accounts[2]].owner = order
    /\ tokens[remaining_accounts[3]].owner = data[order].seller
    /\ tokens[remaining_accounts[4]].owner = Config.treasury
    /\ tokens[remaining_accounts[2]].amount = data[order].amount_paid

\* such a call succeeds, whoever the human parties are: the escrow token
\* account belongs to the order record, not to a signer
TokenSettlementSucceeds ==
    \A authority \in Users, treasury \in VaultKeys, order \in OrderKeys,
       buyer \in Users, seller_destination \in {U1, U2},
       remaining_accounts \in FinalizeTables :
       TokenSettlementValid(authority, treasury, order, buyer,
                            seller_destination, remaining_accounts)
       => /\ tokens[remaining_accounts[2]].owner \notin Users
          /\ finalize_order_err(authority, treasury, order, buyer,
                                seller_destination, remaining_accounts) = "ok"

\* a successful token settlement has paid the seller and the treasury out of
\* the escrow token account, which is then empty and closed, its lamports and
\* the order's gone to the buyer
TokenSettlementStep ==
    \A order \in OrderKeys :
       (/\ last'.op = "finalize_order"
        /\ last'.err = "ok"
        /\ order \in DOMAIN data
        /\ order \notin DOMAIN data'
        /\ ~is_native_mint(data[order].mint))
       => \E escrow \in TokenAccountKeys, s \in TokenAccountKeys,
             t \in TokenAccountKeys :
             LET amount == data[order].amount_paid
                 fee    == (amount * Config.fee_bps) \div 10000
             IN  /\ Cardinality({escrow, s, t}) = 3
                 /\ tokens[escrow].owner = order
                 /\ tokens[s].owner = data[order].seller
                 /\ tokens[t].owner = Config.treasury
                 /\ tokens[escrow].open
                 /\ ~tokens'[escrow].open
                 /\ tokens'[escrow].amount = 0
                 /\ tokens'[s].amount = tokens[s].amount + (amount - fee)
                 /\ tokens'[t].amount = tokens[t].amount + fee
                 /\ \A a \in TokenAccountKeys \ {escrow, s, t} :
                       tokens'[a] = tokens[a]
                 /\ lamports'[escrow] = 0
                 /\ lamports'[order] = 0
                 /\ lamports'[data[order].buyer]
                    = lamports[data[order].buyer] + lamports[escrow]
                      + lamports[order]

\* a token account is never closed with tokens in it, and only by a settlement
TokenCloseLast ==
    \A a \in TokenAccountKeys :
       (tokens[a].open /\ ~tokens'[a].open)
       => /\ last'.op = "finalize_order"
          /\ last'.err = "ok"
          /\ tokens'[a].amount = 0

\* C29: in finalize_order on the token path the escrow token account is closed,
\* to the buyer, only after the seller transfer and the treasury transfer have
\* both completed; a leg of amount 0 moves nothing; transfers and close are
\* authorized by the order record's derived address, not by a human signer.
TokenSettlementOrder ==
    [] TokenSettlementSucceeds /\ [][TokenSettlementStep /\ TokenCloseLast]_vars

\* a token order of 1000 has just been settled at 250 bps: 975 with the seller,
\* 25 with the treasury, the escrow token account closed
TokenSettlementOrderWitness ==
    /\ last.op = "finalize_order"
    /\ last.err = "ok"
    /\ ~tokens[ORDER_ATA].open
    /\ tokens[SELLER_ATA].amount = 975
    /\ tokens[TREASURY_ATA].amount = 25

\* the same at 0 bps, where the treasury leg is skipped
TokenSettlementNoFee ==
    /\ last.op = "finalize_order"
    /\ last.err = "ok"
    /\ ~tokens[ORDER_ATA].open
    /\ tokens[SELLER_ATA].amount = 1000
    /\ tokens[TREASURY_ATA].amount = 0

\* ---- C30: the side table is validated before any token moves ----
\* the calls that get as far as the side table: the accounts pass, the checks
\* the handler makes first pass, and the currency is a token
PurchaseOnTokenPath(buyer, listing, treasury, seller_destination, params) ==
    /\ PurchaseListingAccounts(buyer, listing, treasury, seller_destination) = "ok"
    /\ data[listing].price_lamports = params.expected_price
    /\ ~is_native_mint(data[listing].mint)

FinalizeOnTokenPath(authority, treasury, order, buyer, seller_destination) ==
    /\ FinalizeOrderAccounts(authority, treasury, order, buyer,
                             seller_destination) = "ok"
    /\ ~is_native_mint(data[order].mint)

SubscriptionOnTokenPath(subscriber, treasury, plan, creator_destination, params) ==
    LET instance == InstanceOf(InstanceKey(subscriber, params.instance_seed))
    IN  /\ ProcessSubscriptionPaymentAccounts(subscriber, treasury, plan,
                                              creator_destination, params) = "ok"
        /\ data[plan].active
        /\ \/ instance.last_payment_at = 0
           \/ params.now_ts >= instance.last_payment_at + data[plan].period_seconds
        /\ ~is_native_mint(data[plan].mint)

TableErrors ==
    {"MissingTokenAccounts", "TokenAccountOwnerMismatch", "TokenAccountMintMismatch"}

\* what a run must have returned and written, given its side table: n entries
\* are asked for, the token accounts are the entries first .. first + Len(owners) - 1,
\* owners are the parties that should own them, mint is the currency
TableVerdict(run, n, first, table, owners, mint) ==
    LET slots == 1..Len(owners)
        account(i) == table[first + i - 1]
        wrong_owner == \E i \in slots : tokens[account(i)].owner # owners[i]
        wrong_mint  == \E i \in slots : tokens[account(i)].mint # mint
    IN  /\ Len(table) < n => run.err = "MissingTokenAccounts"
        /\ (/\ Len(table) >= n
            /\ first = 2 => table[1] = mint
            /\ table[n] = TOKEN_PROGRAM
            /\ \A i \in slots :
                  account(i) \in TokenAccountKeys /\ tokens[account(i)].open)
           => /\ (wrong_owner /\ ~wrong_mint)
                 => run.err = "TokenAccountOwnerMismatch"
              /\ (wrong_mint /\ ~wrong_owner)
                 => run.err = "TokenAccountMintMismatch"
              /\ (wrong_owner \/ wrong_mint)
                 => run.err \in {"TokenAccountOwnerMismatch",
                                 "TokenAccountMintMismatch"}
        /\ run.err \in TableErrors => run.t = tokens

PurchaseTableChecked ==
    \A buyer \in Users, listing \in ListingKeys, treasury \in VaultKeys,
       seller_destination \in {U1, U2}, params \in [expected_price : Prices],
       remaining_accounts \in PurchaseTables :
       PurchaseOnTokenPath(buyer, listing, treasury, seller_destination, params)
       => TableVerdict(purchase_listing_run(buyer, listing, treasury,
                           seller_destination, params, remaining_accounts),
                       6, 2, remaining_accounts,
                       <<buyer, OrderKey(listing, buyer), data[listing].seller,
                         Config.treasury>>,
                       data[listing].mint)

FinalizeTableChecked ==
    \A authority \in Users, treasury \in VaultKeys, order \in OrderKeys,
       buyer \in Users, seller_destination \in {U1, U2},
       remaining_accounts \in FinalizeTables :
       FinalizeOnTokenPath(authority, treasury, order, buyer, seller_destination)
       => TableVerdict(finalize_order_run(authority, treasury, order, buyer,
                           seller_destination, remaining_accounts),
                       5, 2, remaining_accounts,
                       <<order, data[order].seller, Config.treasury>>,
                       data[order].mint)

SubscriptionTableChecked ==
    \A subscriber \in Users, treasury \in VaultKeys, plan \in PlanKeys,
       creator_destination \in Users,
       params \in [instance_seed : InstanceSeeds, now_ts : NowInputs],
       remaining_accounts \in SubscriptionTables :
       SubscriptionOnTokenPath(subscriber, treasury, plan, creator_destination,
                               params)
       => TableVerdict(process_subscription_payment_run(subscriber, treasury,
                           plan, creator_destination, params, remaining_accounts),
                       4, 1, remaining_accounts,
                       <<subscriber, data[plan].creator, Config.treasury>>,
                       data[plan].mint)

\* a call refused for its side table has moved no token
TableRefusalMovesNothing ==
    (/\ last'.op \in {"purchase_listing", "finalize_order",
                      "process_subscription_payment"}
     /\ last'.err \in TableErrors)
    => tokens' = tokens

\* C30: on the token path of purchase_listing, finalize_order and
\* process_subscription_payment every token account of the side table is checked
\* for its expected owner and currency before the first transfer: a wrong owner
\* fails with TokenAccountOwnerMismatch, a wrong currency with
\* TokenAccountMintMismatch, too few accounts with MissingTokenAccounts, and in
\* each case no tokens move.
TableValidatedFirst ==
    /\ [] (PurchaseTableChecked /\ FinalizeTableChecked /\ SubscriptionTableChecked)
    /\ [][TableRefusalMovesNothing]_vars

\* a settlement that named the buyer's token account as the seller's was refused
TableValidatedFirstWitness ==
    /\ last.op = "finalize_order"
    /\ last.err = "TokenAccountOwnerMismatch"
    /\ tokens[ORDER_ATA].amount = 1000

TableRefused(op, err) == last.op = op /\ last.err = err

\* ---- C31: a purchased listing stays, inactive and unchanged ----
Purchased(listing) == hist.purchases[listing] >= 1

\* a purchased listing's record exists and is inactive
PurchasedListingKept ==
    \A listing \in ListingKeys :
       Purchased(listing)
       => /\ listing \in DOMAIN data
          /\ data[listing].kind = "ListingAccount"
          /\ ~data[listing].active

\* the purchase itself changes nothing of the listing but the flag
PurchaseOnlyDeactivates ==
    \A listing \in ListingKeys :
       (~Purchased(listing) /\ Purchased(listing)')
       => /\ last'.op = "purchase_listing"
          /\ last'.err = "ok"
          /\ data[listing].active
          /\ data'[listing] = [data[listing] EXCEPT !.active = FALSE]

\* and no later step changes the record or takes its lamports
PurchasedListingFrozen ==
    \A listing \in ListingKeys :
       Purchased(listing)
       => /\ data'[listing] = data[listing]
          /\ lamports'[listing] = lamports[listing]

\* C31: after a successful purchase_listing the listing record still exists
\* with active = false and with seller, currency, price, seed and payload hash
\* unchanged, and it remains so through finalize_order and every later
\* operation: nothing destroys or rewrites a purchased listing.
PurchasedListingStays ==
    /\ [] PurchasedListingKept
    /\ [][PurchaseOnlyDeactivates /\ PurchasedListingFrozen]_vars

\* the order of a purchased listing has just been settled and the listing is
\* still there
PurchasedListingStaysWitness ==
    /\ last.op = "finalize_order"
    /\ last.err = "ok"
    /\ \E listing \in ListingKeys :
          /\ Purchased(listing)
          /\ listing \in DOMAIN data
          /\ ~data[listing].active
          /\ \A buyer \in Users : OrderKey(listing, buyer) \notin DOMAIN data

\* the seller has just tried to cancel a purchased listing
PurchasedListingNotCancelled ==
    /\ last = Result("cancel_listing", U1, "ListingNotActive")
    /\ \E listing \in ListingKeys : Purchased(listing)

\* ---- C32: cancel_listing against purchase_listing, and two purchases ----
\* what a purchase of a listing is called with, and a cancel
PurchaseArgs ==
    [buyer : Users, treasury : VaultKeys, seller_destination : {U1, U2},
     params : [expected_price : Prices]]
CancelArgs == [seller : Users, treasury : VaultKeys]

PurchaseErr(listing, p) ==
    purchase_listing_err(p.buyer, listing, p.treasury, p.seller_destination,
                         p.params, <<>>)
CancelErr(listing, c) == cancel_listing_err(c.seller, listing, c.treasury)

\* the cancel has committed: every purchase that would have succeeded now fails
CancelWinsRace ==
    \A listing \in ListingKeys :
       (/\ last'.op = "cancel_listing"
        /\ last'.err = "ok"
        /\ listing \in DOMAIN data
        /\ listing \notin DOMAIN data')
       => \A p \in PurchaseArgs :
             PurchaseErr(listing, p) = "ok"
             => PurchaseErr(listing, p)' = "AccountNotInitialized"

\* a purchase has committed: every cancel and every other purchase that would
\* have succeeded now fails
PurchaseWinsRace ==
    \A listing \in ListingKeys :
       (/\ last'.op = "purchase_listing"
        /\ last'.err = "ok"
        /\ listing \in DOMAIN data
        /\ data[listing].active
        /\ ~data'[listing].active)
       => /\ \A c \in CancelArgs :
                CancelErr(listing, c) = "ok"
                => CancelErr(listing, c)' = "ListingNotActive"
          /\ \A p \in PurchaseArgs :
                PurchaseErr(listing, p) = "ok"
                => PurchaseErr(listing, p)'
                   = IF p.buyer = last'.signer THEN "AccountAlreadyInUse"
                     ELSE "ListingNotActive"

\* the loser keeps its funds
RaceLoserKeepsFunds ==
    (/\ last'.op \in {"purchase_listing", "cancel_listing"}
     /\ last'.err # "ok")
    => /\ lamports' = lamports
       /\ tokens' = tokens
       /\ data' = data

\* every order record belongs to a listing that is still there, bought
OrdersOfKeptListings ==
    \A listing \in ListingKeys, buyer \in Users :
       (\/ OrderKey(listing, buyer) \in DOMAIN data
        \/ lamports[OrderKey(listing, buyer)] > 0)
       => /\ listing \in DOMAIN data
          /\ ~data[listing].active
          /\ OrderKey(listing, buyer) \in DOMAIN data
          /\ data[OrderKey(listing, buyer)].listing = listing

\* C32: when the seller's cancel_listing and a buyer's purchase_listing, or two
\* buyers' purchase_listing, are submitted against the same active listing, in
\* either commit order exactly one succeeds; the loser fails against the updated
\* state and loses no funds, and there is never an order with escrowed funds
\* for a cancelled listing.
CancelPurchaseRace ==
    /\ [] OrdersOfKeptListings
    /\ [][CancelWinsRace /\ PurchaseWinsRace /\ RaceLoserKeepsFunds]_vars

\* both a cancel and a purchase could have committed; the cancel did, and the
\* purchase has just failed
CancelPurchaseRaceWitness ==
    /\ last.op = "purchase_listing"
    /\ last.err = "AccountNotInitialized"
    /\ CONFIG \in DOMAIN data
    /\ \E listing \in hist.deactivated :
          /\ listing \notin DOMAIN data
          /\ hist.purchases[listing] = 0

\* the purchase committed and the cancel has just failed
PurchaseBeatsCancel ==
    /\ last = Result("cancel_listing", U1, "ListingNotActive")
    /\ \E listing \in ListingKeys, buyer \in Users :
          /\ OrderKey(listing, buyer) \in DOMAIN data
          /\ lamports[OrderKey(listing, buyer)]
             = minimum_balance(0) + data[listing].price_lamports

\* one buyer's purchase committed and another buyer's has just failed
PurchaseBeatsPurchase ==
    /\ last = Result("purchase_listing", AUTHORITY, "ListingNotActive")
    /\ \E listing \in ListingKeys :
          /\ OrderKey(listing, U2) \in DOMAIN data
          /\ lamports[AUTHORITY] >= minimum_balance(0) + data[listing].price_lamports

\* ---- C33: the escrows hold what they owe ----
\* the listings, orders and contests together
InitEscrow == Init /\ scope \in {"market", "contest"}

NextEscrow ==
    \/ InitializeConfig
    \/ SetAdminConfig
    \/ CreateListing
    \/ CancelListing
    \/ PurchaseListing
    \/ FinalizeOrder
    \/ CreateContest
    \/ SubmitContestEntry
    \/ ResolveContest
    \/ Tick
    \/ Deposit

SpecEscrow == InitEscrow /\ [][NextEscrow]_vars

NativeOrders ==
    {k \in DOMAIN data :
        data[k].kind = "OrderAccount" /\ is_native_mint(data[k].mint)}
OpenContests == {k \in DOMAIN data : data[k].kind = "ContestAccount"}

\* every funded native order holds its amount_paid on top of its rent
NativeOrdersSolvent ==
    \A order \in NativeOrders :
       /\ ~data[order].settled
       /\ lamports[order] >= data[order].amount_paid
       /\ lamports[order] = minimum_balance(0) + data[order].amount_paid

\* every open contest holds its prize on top of its rent
OpenContestsSolvent ==
    \A contest \in OpenContests :
       /\ ~data[contest].settled
       /\ lamports[contest] >= data[contest].prize_lamports
       /\ lamports[contest] = minimum_balance(0) + data[contest].prize_lamports

\* the balance checks of finalize_order (native) and resolve_contest never fire
EscrowCheckNeverFires ==
    /\ (last'.op = "finalize_order" /\ NativeOrders = {k \in DOMAIN data : data[k].kind = "OrderAccount"})
       => last'.err # "EscrowBalanceTooLow"
    /\ last'.op = "resolve_contest" => last'.err # "EscrowBalanceTooLow"

\* C33: in every reachable state each funded native order's record balance is
\* at least amount_paid and each open contest's record balance is at least
\* prize_lamports, so the EscrowBalanceTooLow checks of finalize_order (native)
\* and resolve_contest never fire.
EscrowSolvency ==
    /\ [] (NativeOrdersSolvent /\ OpenContestsSolvent)
    /\ [][EscrowCheckNeverFires]_vars

\* a native order of 1000 is funded
EscrowSolvencyWitness ==
    \E order \in NativeOrders :
       /\ data[order].amount_paid = 1000
       /\ lamports[order] = minimum_balance(0) + 1000
       /\ last = Result("purchase_listing", data[order].buyer, "ok")

\* an open contest holds its prize
OpenContestFunded ==
    \E contest \in OpenContests :
       /\ data[contest].prize_lamports = DepositAmount
       /\ last.op = "create_contest"
       /\ last.err = "ok"

\* a native order and a contest have been paid out
EscrowPaidOut ==
    /\ last.err = "ok"
    /\ \/ last.op = "finalize_order" /\ lamports[U1] > 2 * RentExemptMinimum
       \/ last.op = "resolve_contest"

\* ---- C34: can a funded token order always be settled ----
\* a finalize_order by the configured authority, with the order's own parties
\* and a side table of validated accounts whose escrow token account covers the
\* order's amount
SettlementOffered(authority, treasury, order, buyer, seller_destination, remaining_accounts) ==
    /\ {CONFIG, treasury, order} \subseteq DOMAIN data
    /\ data[order].kind = "OrderAccount"
    /\ ~is_native_mint(data[order].mint)
    /\ ~data[order].settled
    /\ authority = Config.authority
    /\ treasury = Config.treasury
    /\ buyer = data[order].buyer
    /\ seller_destination = data[order].seller
    /\ Len(remaining_accounts) >= 5
    /\ remaining_accounts[1] = data[order].mint
    /\ remaining_accounts[5] = TOKEN_PROGRAM
    /\ validate_token_account(tokens, remaining_accounts[2], data[order].mint,
                              order) = "ok"
    /\ validate_token_account(tokens, remaining_accounts[3], data[order].mint,
                              data[order].seller) = "ok"
    /\ validate_token_account(tokens, remaining_accounts[4], data[order].mint,
                              Config.treasury) = "ok"
    /\ tokens[remaining_accounts[2]].amount >= data[order].amount_paid

\* C34: from every reachable state, a funded token-path order whose escrow token
\* account holds at least amount_paid can be finalized by the authority with
\* correctly validated accounts, also when a third party has deposited
\* additional tokens into the escrow token account.
TokenOrderSettleable ==
    \A authority \in Users, treasury \in VaultKeys, order \in OrderKeys,
       buyer \in Users, seller_destination \in {U1, U2},
       remaining_accounts \in FinalizeTables :
       SettlementOffered(authority, treasury, order, buyer, seller_destination,
                         remaining_accounts)
       => finalize_order_err(authority, treasury, order, buyer,
                             seller_destination, remaining_accounts) = "ok"

\* what does hold: the offer succeeds when the escrow token account holds
\* exactly amount_paid, and fails in close_account when it holds more
TokenOrderSettleableExact ==
    \A authority \in Users, treasury \in VaultKeys, order \in OrderKeys,
       buyer \in Users, seller_destination \in {U1, U2},
       remaining_accounts \in FinalizeTables :
       SettlementOffered(authority, treasury, order, buyer, seller_destination,
                         remaining_accounts)
       => finalize_order_err(authority, treasury, order, buyer,
                             seller_destination, remaining_accounts)
          = IF tokens[remaining_accounts[2]].amount = data[order].amount_paid
            THEN "ok" ELSE "NonNativeHasBalance"

\* an order of 1000 paid into a token account that already held 999
Overfunded(order) ==
    /\ order \in DOMAIN data
    /\ data[order].kind = "OrderAccount"
    /\ data[order].amount_paid = 1000
    /\ tokens[ORDER_ATA_SHORT].owner = order
    /\ tokens[ORDER_ATA_SHORT].amount = 1999
    /\ tokens[ORDER_ATA].amount = 0

\* such an order is never settled: no step takes it, or its tokens, away
OverfundedOrderStuck ==
    [][\A order \in OrderKeys :
          Overfunded(order) => Overfunded(order)']_vars

\* the authority has just tried to settle an overfunded order
OverfundedOrderRefused ==
    /\ last = Result("finalize_order", AUTHORITY, "NonNativeHasBalance")
    /\ \E order \in OrderKeys : Overfunded(order)

\* ---- C35: the rate of a settlement is the rate stored when it runs ----
\* what a successful finalize_order of an order credited the treasury and the
\* seller with, the buyer's refund of the order's deposit left aside
TreasuryCredit(order) ==
    lamports'[Config.treasury] - lamports[Config.treasury]
SellerCredit(order) ==
    lamports'[data[order].seller] - lamports[data[order].seller]
    - (IF data[order].seller = data[order].buyer
       THEN lamports[order] - data[order].amount_paid ELSE 0)

SettledAtCurrentRate ==
    \A order \in OrderKeys :
       (/\ last'.op = "finalize_order"
        /\ last'.err = "ok"
        /\ order \in DOMAIN data
        /\ order \notin DOMAIN data'
        /\ is_native_mint(data[order].mint))
       => LET amount == data[order].amount_paid
              fee    == (amount * Config.fee_bps) \div 10000
          IN  /\ TreasuryCredit(order) = fee
              /\ SellerCredit(order) = amount - fee
              /\ TreasuryCredit(order) + SellerCredit(order) = amount

\* set_admin_config writes the rate it is given; nothing else changes the rate
\* once the configuration exists, and no order record carries a rate
RateSetByAdminOnly ==
    (CONFIG \in DOMAIN data /\ CONFIG \in DOMAIN data'
     /\ data'[CONFIG].fee_bps # data[CONFIG].fee_bps)
    => /\ last'.op = "set_admin_config"
       /\ last'.err = "ok"
       /\ last'.signer = Config.authority

\* C35: the fee taken from an order is computed from the fee_bps stored in the
\* configuration when finalize_order executes, not the value in force when
\* purchase_listing ran; for any set_admin_config between the purchase and the
\* settlement, treasury credit + seller credit still equals amount_paid.
FeeRateAtSettlement == [][SettledAtCurrentRate /\ RateSetByAdminOnly]_vars

\* an order of 1000 bought at 0 bps has just been settled at 250 bps: the
\* treasury holds 25 more
FeeRateAtSettlementWitness ==
    /\ last.op = "finalize_order"
    /\ last.err = "ok"
    /\ Config.fee_bps = 250
    /\ \E listing \in ListingKeys :
          /\ hist.purchase_fee_bps[listing] = 0
          /\ data[listing].price_lamports = 1000
    /\ lamports[Config.treasury] % RentExemptMinimum = 25

\* an order of 1000 bought at 250 bps has just been settled at 10000 bps
FeeRateRaisedBeforeSettlement ==
    /\ last.op = "finalize_order"
    /\ last.err = "ok"
    /\ Config.fee_bps = 10000
    /\ \E listing \in ListingKeys :
          /\ hist.purchase_fee_bps[listing] = 250
          /\ data[listing].price_lamports = 1000
    /\ lamports[Config.treasury] >= RentExemptMinimum + 1000

=============================================================================
